---- MODULE Spec2Model ----
(***************************************************************************)
(* Model of the kiwi-shader hot-reload pipeline: the reload coordinator    *)
(* (ShaderLayer), the include preprocessor it calls and the annotation     *)
(* scanner whose descriptors it merges across reloads.                     *)
(*                                                                         *)
(* A file is a sequence of lines; a line is a record                       *)
(*   [k, f, directive, type, name, def, max]                               *)
(* with k = "inc"  : #include "f"                                          *)
(*      k = "uni"  : // @directive(default=def, max=max)                   *)
(*                   uniform type name;                                    *)
(*      k = "badinc" : an #include directive without a path, #include <>   *)
(*      k = "bad"  : a line the GLSL compiler rejects                      *)
(*      k = "badlink" : a line the compiler accepts and the linker rejects *)
(*      k = "text" : any other line                                        *)
(*      k = "begin"/"end" : the // BEGIN INCLUDE: f / // END INCLUDE: f    *)
(*                   marker comments the preprocessor emits.               *)
(***************************************************************************)
EXTENDS Integers, Sequences, FiniteSets, TLC

\* ------------------------------------------------------------------------
\* Bounds
\* ------------------------------------------------------------------------
\* modification timestamps of existing files range over 1..MaxTime
MaxTime == 2

\* values a user can give a uniform through the editor: 0..MaxValue
MaxValue == 0

\* ------------------------------------------------------------------------
\* The file system
\* ------------------------------------------------------------------------
\* files that exist on disk
Files == {"a.frag", "b.glsl"}

\* the names glCreateProgram hands out: the old program is deleted only
\* after the new one is linked, so two names are in use at most
ProgramNames == {1, 2}

\* a path at which no file exists
Missing == "missing.glsl"

\* the paths loadShader is called with: the shader, and a path that is not there
Paths == {"a.frag", Missing}

Line(k, f, directive, type, name, def, max) ==
    [k |-> k, f |-> f, directive |-> directive, type |-> type,
     name |-> name, def |-> def, max |-> max]

Inc(f) == Line("inc", f, "", "", "", 0, 0)

Uni(directive, type, name, def, max) == Line("uni", "", directive, type, name, def, max)

\* a line isIncludeDirective accepts and parseIncludePath finds no path in
BadInc == Line("badinc", "", "", "", "", 0, 0)

\* a line glCompileShader rejects
Bad == Line("bad", "", "", "", "", 0, 0)

\* a line glCompileShader accepts and glLinkProgram rejects
BadLink == Line("badlink", "", "", "", "", 0, 0)

Text == Line("text", "", "", "", "", 0, 0)

BeginInclude(f) == Line("begin", f, "", "", "", 0, 0)

EndInclude(f) == Line("end", f, "", "", "", 0, 0)

\* the name of the uniform the files declare
uSpeed == <<"u", "S", "p", "e", "e", "d">>

\* the contents the editor saves to the shader: with the include and a
\* float slider, the slider with other bounds and default, a source the
\* compiler rejects, a source that includes itself
MainContents ==
    { <<Inc("b.glsl"), Uni("slider", "float", uSpeed, 1, 2)>>,
      <<Uni("slider", "float", uSpeed, 2, 3)>>,
      <<Bad>>,
      <<Inc("a.frag")>> }

\* the included file declares the same name as an int slider, or holds a
\* source the compiler accepts and the linker rejects
IncludeContents ==
    { <<Uni("slider", "int", uSpeed, 1, 2)>>,
      <<BadLink>> }

Contents(f) == IF f = "a.frag" THEN MainContents ELSE IncludeContents

FileStates(f) == [mtime : 1..MaxTime, content : Contents(f)]

\* the disks: each file with a timestamp and one of its contents
Disks ==
    {fs \in [Files -> UNION {FileStates(f) : f \in Files}] :
        \A f \in Files : fs[f] \in FileStates(f)}

VARIABLES
    files,                \* the disk: file -> [mtime, content]
    glVertexShaderCompiles, \* the GL driver compiles the default vertex shader
    glPrograms,           \* the GL context: live program name -> linked source
    shaderProgram_,
    shaderPath_,
    shaderSource_,
    lastModTime_,
    lastError_,
    autoReload_,
    shaderDependencies_,
    dependencyModTimes_,
    uniforms_,
    last,                 \* the last coordinator call: [op, ret, load]
    call,                 \* the library function applied to input, or "none"
    input,                \* the argument of a call of a library function
    output                \* what that call returned

vars == <<files, glVertexShaderCompiles, glPrograms, shaderProgram_, shaderPath_, shaderSource_,
          lastModTime_, lastError_, autoReload_, shaderDependencies_,
          dependencyModTimes_, uniforms_, last, call, input, output>>

\* what the variable last records of a call of the coordinator
Call(op, ret, load) == [op |-> op, ret |-> ret, load |-> load]

\* ------------------------------------------------------------------------
\* ShaderPreprocessor
\* ------------------------------------------------------------------------
Exists(fs, f) == f \in DOMAIN fs

\* the preprocessor object's members while it runs: errorMessage_,
\* processedFiles_, dependencies_, and the stringstream being written
PreState(out, deps, seen, err) ==
    [out |-> out, deps |-> deps, seen |-> seen, err |-> err]

\* lineNumber when std::getline has read element i of the source: an
\* annotated uniform is two lines of text, the annotation comment and the
\* declaration after it; every other element is one line
RECURSIVE lineNumber(_, _)
lineNumber(source, i) ==
    IF i = 0 THEN 0
    ELSE lineNumber(source, i - 1) + (IF source[i].k = "uni" THEN 2 ELSE 1)

\* circularInclude, had the branch returned without setting errorMessage_
circularInclude_NoError(st, includePath, currentFile, line) == st

\* the branch taken when the resolved path is in processedFiles_
circularInclude(st, includePath, currentFile, line) ==
    PreState(<<>>, st.deps, st.seen,
             <<"Circular include detected: ", includePath, currentFile, ToString(line)>>)

RECURSIVE processRecursive(_, _, _, _, _)
processRecursive(fs, source, currentFile, i, st) ==
    IF i > Len(source) THEN st
    ELSE LET line == source[i] IN
      IF line.k = "badinc"
      THEN PreState(<<>>, st.deps, st.seen,
                    <<"Invalid #include syntax at line ",
                      ToString(lineNumber(source, i)), currentFile>>)
      ELSE IF line.k = "inc"
      THEN IF ~Exists(fs, line.f)
           THEN PreState(<<>>, st.deps, st.seen,
                         <<"Include file not found: ", line.f, currentFile,
                           ToString(lineNumber(source, i))>>)
           ELSE IF line.f \in st.seen
           THEN circularInclude(st, line.f, currentFile, lineNumber(source, i))
           ELSE LET seen1 == st.seen \cup {line.f}
                    deps1 == Append(st.deps, line.f)
                    includedSource == fs[line.f].content
                IN IF includedSource = <<>>
                   THEN PreState(<<>>, deps1, seen1,
                                 <<"Failed to read include file: ", line.f>>)
                   ELSE LET sub == processRecursive(fs, includedSource, line.f, 1,
                                                    PreState(<<>>, deps1, seen1, <<>>))
                        IN IF sub.err # <<>>
                           THEN PreState(<<>>, sub.deps, sub.seen, sub.err)
                           ELSE processRecursive(fs, source, currentFile, i + 1,
                                    PreState(st.out \o <<BeginInclude(line.f)>>
                                                    \o sub.out
                                                    \o <<EndInclude(line.f)>>,
                                             sub.deps, sub.seen, <<>>))
      ELSE processRecursive(fs, source, currentFile, i + 1,
                            PreState(Append(st.out, line), st.deps, st.seen, <<>>))

\* process, had a failing run handed out what it had collected so far
process_ReturnsPartial(fs, mainFilePath) ==
    IF ~Exists(fs, mainFilePath)
    THEN [success |-> FALSE, source |-> <<>>, dependencies |-> <<>>,
          errorMessage |-> <<"Shader file not found: ", mainFilePath>>]
    ELSE LET r == processRecursive(fs, fs[mainFilePath].content, mainFilePath, 1,
                                   PreState(<<>>, <<>>, {}, <<>>))
         IN [success |-> r.err = <<>>, source |-> r.out, dependencies |-> r.deps,
             errorMessage |-> r.err]

process(fs, mainFilePath) ==
    IF ~Exists(fs, mainFilePath)
    THEN [success |-> FALSE, source |-> <<>>, dependencies |-> <<>>,
          errorMessage |-> <<"Shader file not found: ", mainFilePath>>]
    ELSE LET r == processRecursive(fs, fs[mainFilePath].content, mainFilePath, 1,
                                   PreState(<<>>, <<>>, {}, <<>>))
         IN IF r.err # <<>>
            THEN [success |-> FALSE, source |-> <<>>, dependencies |-> <<>>,
                  errorMessage |-> r.err]
            ELSE [success |-> TRUE, source |-> r.out, dependencies |-> r.deps,
                  errorMessage |-> <<>>]

\* ------------------------------------------------------------------------
\* Direct calls of ShaderPreprocessor::process on a directory of three files
\* ------------------------------------------------------------------------
\* the main file holds at most MaxLines lines
MaxLines == 2

\* the files #include directives can name besides the main file
IncludeFiles == {"b.glsl", "c.glsl"}

\* the lines of the main file
MainLines ==
    {Inc("a.frag"), Inc("b.glsl"), Inc("c.glsl"), Inc(Missing), BadInc, Text,
     Uni("slider", "float", uSpeed, 1, 2)}

MainTexts == UNION {[1..n -> MainLines] : n \in 0..MaxLines}

\* the texts of an included file: empty, plain, including the other file,
\* itself or the main file, with a line after the directive, with a missing
\* file, with a directive without a path
IncludeTexts ==
    { <<>>,
      <<Text>>,
      <<Inc("c.glsl")>>,
      <<Inc("b.glsl")>>,
      <<Inc("a.frag")>>,
      <<Inc("c.glsl"), Text>>,
      <<Text, Inc(Missing)>>,
      <<BadInc>> }

\* a directory holding the main file with text a and the two other files
Directory(a, b, c) ==
    [f \in {"a.frag"} \cup IncludeFiles |->
        [mtime |-> 1,
         content |-> IF f = "a.frag" THEN a ELSE IF f = "b.glsl" THEN b ELSE c]]

coordinatorVars ==
    <<files, glVertexShaderCompiles, glPrograms, shaderProgram_, shaderPath_, shaderSource_,
      lastModTime_, lastError_, autoReload_, shaderDependencies_,
      dependencyModTimes_, uniforms_, last>>

\* no ShaderLayer takes part in a direct call of a library function
NoCoordinator ==
    /\ files = <<>>
    /\ glVertexShaderCompiles = TRUE
    /\ glPrograms = <<>>
    /\ shaderProgram_ = 0
    /\ shaderPath_ = ""
    /\ shaderSource_ = <<>>
    /\ lastModTime_ = 0
    /\ lastError_ = <<>>
    /\ autoReload_ = TRUE
    /\ shaderDependencies_ = <<>>
    /\ dependencyModTimes_ = <<>>
    /\ uniforms_ = <<>>
    /\ last = Call("none", FALSE, FALSE)

PreInit ==
    /\ NoCoordinator
    /\ call = "none"
    /\ input \in [fs : {Directory(a, b, c) : a \in MainTexts,
                                              b \in IncludeTexts,
                                              c \in IncludeTexts},
                   mainFilePath : Paths]
    /\ output = <<>>

\* PreprocessResult result = ShaderPreprocessor::process(mainFilePath)
Preprocess ==
    /\ call = "none"
    /\ call' = "process"
    /\ output' = process(input.fs, input.mainFilePath)
    /\ UNCHANGED input
    /\ UNCHANGED coordinatorVars

PreNext == Preprocess

PreSpec == PreInit /\ [][PreNext]_vars

\* ------------------------------------------------------------------------
\* AnnotationLexer
\* ------------------------------------------------------------------------
\* A string is a sequence of characters, a character a string of length one;
\* positions count from 0 as in the source.
At(str, pos) == str[pos + 1]

isWhitespace(c) == c \in {" ", "\t", "\r", "\n"}

isDigit(c) == c \in {"0", "1", "2", "3", "4", "5", "6", "7", "8", "9"}

isAlpha(c) ==
    c \in {"a", "b", "c", "d", "e", "f", "g", "h", "i", "j", "k", "l", "m",
           "n", "o", "p", "q", "r", "s", "t", "u", "v", "w", "x", "y", "z",
           "A", "B", "C", "D", "E", "F", "G", "H", "I", "J", "K", "L", "M",
           "N", "O", "P", "Q", "R", "S", "T", "U", "V", "W", "X", "Y", "Z",
           "_"}

isAlphaNumeric(c) == isAlpha(c) \/ isDigit(c)

Token(type, value, position) ==
    [type |-> type, value |-> value, position |-> position]

\* a local variable of the code: value is computed once, then body uses it
With(value, body(_)) == CHOOSE result \in {body(v) : v \in {value}} : TRUE

\* what a token reader hands back: the token and the advanced position
Read(token, pos) == [tokens |-> <<token>>, pos |-> pos]

\* while (pos < input.length() && isDigit(input[pos])) pos++
RECURSIVE SkipDigits(_, _)
SkipDigits(str, pos) ==
    IF pos < Len(str) /\ isDigit(At(str, pos)) THEN SkipDigits(str, pos + 1)
    ELSE pos

RECURSIVE SkipAlphaNumeric(_, _)
SkipAlphaNumeric(str, pos) ==
    IF pos < Len(str) /\ isAlphaNumeric(At(str, pos))
    THEN SkipAlphaNumeric(str, pos + 1)
    ELSE pos

readNumber(str, start) ==
    LET signed == IF At(str, start) = "-" THEN start + 1 ELSE start
        whole == SkipDigits(str, signed)
        fraction == IF whole < Len(str) /\ At(str, whole) = "."
                    THEN SkipDigits(str, whole + 1)
                    ELSE whole
        exponent ==
            IF fraction < Len(str) /\ At(str, fraction) \in {"e", "E"}
            THEN LET e == fraction + 1
                     sign == IF e < Len(str) /\ At(str, e) \in {"+", "-"}
                             THEN e + 1 ELSE e
                 IN SkipDigits(str, sign)
            ELSE fraction
    IN Read(Token("Number", SubSeq(str, start + 1, exponent), start), exponent)

readIdentifier(str, start) ==
    LET end == SkipAlphaNumeric(str, start)
    IN Read(Token("Identifier", SubSeq(str, start + 1, end), start), end)

\* the character an escape sequence stands for
Escaped(c) == IF c = "n" THEN "\n" ELSE IF c = "t" THEN "\t" ELSE c

\* the loop of readString: the value read so far and the position
RECURSIVE readStringBody(_, _, _, _)
readStringBody(str, pos, quote, value) ==
    IF pos < Len(str) /\ At(str, pos) # quote
    THEN IF At(str, pos) = "\\" /\ pos + 1 < Len(str)
         THEN readStringBody(str, pos + 2, quote,
                             Append(value, Escaped(At(str, pos + 1))))
         ELSE readStringBody(str, pos + 1, quote, Append(value, At(str, pos)))
    ELSE [value |-> value, pos |-> IF pos < Len(str) THEN pos + 1 ELSE pos]

readString(str, start) ==
    LET body == readStringBody(str, start + 1, At(str, start), <<>>)
    IN Read(Token("String", body.value, start), body.pos)

\* the type of the token a single character stands for
SingleCharacter(c) ==
    IF c = "=" THEN "Equals"
    ELSE IF c = "," THEN "Comma"
    ELSE IF c = "(" THEN "ParenOpen"
    ELSE IF c = ")" THEN "ParenClose"
    ELSE IF c = "[" THEN "BracketOpen"
    ELSE IF c = "]" THEN "BracketClose"
    ELSE IF c = "#" THEN "Hash"
    ELSE ""

\* nextToken, had the lexer given up at the first invalid character
nextToken_StopsAtInvalid(str, pos) ==
    LET c == At(str, pos) IN
    IF isWhitespace(c) THEN [tokens |-> <<>>, pos |-> pos + 1]
    ELSE IF SingleCharacter(c) # ""
    THEN Read(Token(SingleCharacter(c), <<c>>, pos), pos + 1)
    ELSE IF isDigit(c) \/ (c = "-" /\ pos + 1 < Len(str) /\ isDigit(At(str, pos + 1)))
    THEN readNumber(str, pos)
    ELSE IF isAlpha(c) THEN readIdentifier(str, pos)
    ELSE IF c = "\"" \/ c = "'" THEN readString(str, pos)
    ELSE Read(Token("Invalid", <<c>>, pos), Len(str))

\* one turn of the loop of tokenize at position pos < input.length()
nextToken(str, pos) ==
    LET c == At(str, pos) IN
    IF isWhitespace(c) THEN [tokens |-> <<>>, pos |-> pos + 1]
    ELSE IF SingleCharacter(c) # ""
    THEN Read(Token(SingleCharacter(c), <<c>>, pos), pos + 1)
    ELSE IF isDigit(c) \/ (c = "-" /\ pos + 1 < Len(str) /\ isDigit(At(str, pos + 1)))
    THEN readNumber(str, pos)
    ELSE IF isAlpha(c) THEN readIdentifier(str, pos)
    ELSE IF c = "\"" \/ c = "'" THEN readString(str, pos)
    ELSE Read(Token("Invalid", <<c>>, pos), pos + 1)

RECURSIVE tokenizeFrom(_, _, _)
tokenizeFrom(str, pos, tokens) ==
    IF pos < Len(str)
    THEN With(nextToken(str, pos), LAMBDA step :
              tokenizeFrom(str, step.pos, tokens \o step.tokens))
    ELSE Append(tokens, Token("EndOfInput", <<>>, pos))

tokenize(str) == tokenizeFrom(str, 0, <<>>)

\* ------------------------------------------------------------------------
\* AnnotationParser
\* ------------------------------------------------------------------------
\* A double is the fraction <<numerator, denominator>> in lowest terms.
RECURSIVE GCD(_, _)
GCD(a, b) == IF b = 0 THEN a ELSE GCD(b, a % b)

Rat(n, d) ==
    LET g == GCD(IF n < 0 THEN -n ELSE n, d)
    IN <<n \div g, d \div g>>

RECURSIVE Pow10(_)
Pow10(n) == IF n = 0 THEN 1 ELSE 10 * Pow10(n - 1)

DigitValue(c) == CHOOSE v \in 0..9 : ToString(v) = c

\* the number the digits at positions from..to-1 spell, appended to acc
RECURSIVE DecimalValue(_, _, _, _)
DecimalValue(str, from, to, acc) ==
    IF from >= to THEN acc
    ELSE DecimalValue(str, from + 1, to, 10 * acc + DigitValue(At(str, from)))

\* the largest decimal exponent of a double: beyond it std::stod throws
\* std::out_of_range
MaxExponent10 == 308

\* exponents are counted up to here; no text is long enough to tell a
\* larger one from it
ExponentCap == 100000000

\* the number the digits at positions from..to-1 spell, stopping at the cap
RECURSIVE ExponentValue(_, _, _, _)
ExponentValue(str, from, to, acc) ==
    IF from >= to \/ acc >= ExponentCap THEN acc
    ELSE ExponentValue(str, from + 1, to, 10 * acc + DigitValue(At(str, from)))

\* the digits of 2^1024 - 2^970, nine to an entry (d.ddd... x 10^308): the
\* least value that rounds beyond DBL_MAX
OverflowDigits ==
    <<179769313, 486231580, 793728971, 405303415, 79934132, 710037826,
      936173778, 980444968, 292764750, 946649017, 977587207, 96330286,
      416692887, 910946555, 547851940, 402630657, 488671505, 820681908,
      902000708, 383676273, 854845817, 711531764, 475730270, 69855571,
      366959622, 842914819, 860834936, 475292719, 74168444, 365510704,
      342711559, 699508093, 42880177, 904174497, 792000000>>

\* the digits of 2^-1022 - 2^-1076, nine to an entry (d.ddd... x 10^-308):
\* the least value that rounds to a normal double
UnderflowDigits ==
    <<222507385, 850720125, 957382125, 702076802, 7701776, 340698873,
      928837676, 330601332, 841749757, 68540634, 146032305, 423910824,
      932203771, 605601126, 30012402, 737719183, 479639276, 972143707,
      899083653, 279890443, 184986473, 250411046, 727308469, 697781202,
      871623655, 696793589, 565735186, 820278872, 249481153, 15131761,
      636633329, 694595343, 136922219, 30805378, 769494041, 174370780,
      982258074, 98888055, 161790711, 900214875, 940191589, 215148208,
      192489026, 331270225, 732118475, 77186145, 222409621, 263169862,
      363877686, 14183806, 116570226, 377664090, 764819443, 553605433,
      637372797, 801459310, 67866049, 211751678, 490852151, 115976737,
      332333919, 198322132, 685351912, 833878489, 191338071, 553284097,
      100387899, 362724068, 672666339, 760914983, 434983134, 487967665,
      346909155, 913018989, 911452112, 478238054, 734100977, 559067609,
      629158594, 969774301, 893081138, 586927281, 153293733, 950704336,
      166381835, 937500000>>

\* the k-th digit of a number written nine digits to an entry, 0 behind it
DigitAt(chunks, k) ==
    IF k > 9 * Len(chunks) THEN 0
    ELSE (chunks[(k - 1) \div 9 + 1] \div Pow10(8 - ((k - 1) % 9))) % 10

\* -1, 0 or 1 as the digits of str from its k-th on spell less than, the
\* same as, or more than those of chunks from the k-th on; skip digits of
\* str come before its first
RECURSIVE CompareDigits(_, _, _, _)
CompareDigits(digits, skip, chunks, k) ==
    IF skip + k > Len(digits) /\ k > 9 * Len(chunks) THEN 0
    ELSE LET d == IF skip + k <= Len(digits) THEN DigitValue(digits[skip + k]) ELSE 0
         IN IF d < DigitAt(chunks, k) THEN -1
            ELSE IF d > DigitAt(chunks, k) THEN 1
            ELSE CompareDigits(digits, skip, chunks, k + 1)

RECURSIVE LeadingZeros(_, _)
LeadingZeros(digits, n) ==
    IF n < Len(digits) /\ digits[n + 1] = "0" THEN LeadingZeros(digits, n + 1) ELSE n

\* the white space of the C locale: space, \t, \n, \v, \f and \r (the
\* vertical tab has no escape and stands in its string as the character)
isspace(c) == c \in {" ", "\t", "\n", "", "\f", "\r"}

RECURSIVE SkipSpaces(_, _)
SkipSpaces(str, pos) ==
    IF pos < Len(str) /\ isspace(At(str, pos)) THEN SkipSpaces(str, pos + 1)
    ELSE pos

isHexDigit(c) ==
    isDigit(c) \/ c \in {"a", "b", "c", "d", "e", "f", "A", "B", "C", "D", "E", "F"}

HexValue(c) ==
    IF isDigit(c) THEN DigitValue(c)
    ELSE IF c \in {"a", "A"} THEN 10
    ELSE IF c \in {"b", "B"} THEN 11
    ELSE IF c \in {"c", "C"} THEN 12
    ELSE IF c \in {"d", "D"} THEN 13
    ELSE IF c \in {"e", "E"} THEN 14
    ELSE 15

RECURSIVE SkipHexDigits(_, _)
SkipHexDigits(str, pos) ==
    IF pos < Len(str) /\ isHexDigit(At(str, pos)) THEN SkipHexDigits(str, pos + 1)
    ELSE pos

\* the number the hex digits spell, appended to acc
RECURSIVE HexNumber(_, _)
HexNumber(digits, acc) ==
    IF digits = <<>> THEN acc
    ELSE HexNumber(Tail(digits), 16 * acc + HexValue(Head(digits)))

RECURSIVE Pow2(_)
Pow2(n) == IF n = 0 THEN 1 ELSE 2 * Pow2(n - 1)

\* the number of binary digits of n
RECURSIVE BitLength(_)
BitLength(n) == IF n = 0 THEN 0 ELSE 1 + BitLength(n \div 2)

\* A double is written as a fraction <<n, d>> in lowest terms, and stands
\* for the double nearest to it (ties to the even mantissa); the zero with
\* the sign bit set, the infinities and the NaNs are written as follows.
MinusZero == <<0, -1>>

Infinity == <<"inf">>

MinusInfinity == <<"-inf">>

NaN == <<"nan">>

MinusNaN == <<"-nan">>

\* what std::stod hands back: the value, or thrown for std::invalid_argument
\* and std::out_of_range alike
Converted(x) == [thrown |-> FALSE, value |-> x]

NotConverted == [thrown |-> TRUE, value |-> Rat(0, 1)]

\* the exponent part that starts at position e of str behind one of marks:
\* it counts only when digits follow the mark and its sign
stodExponent(str, e, marks) ==
    IF ~(e < Len(str) /\ At(str, e) \in marks) THEN 0
    ELSE With(IF e + 1 < Len(str) /\ At(str, e + 1) \in {"+", "-"} THEN e + 2 ELSE e + 1,
              LAMBDA digitsAt :
         With(SkipDigits(str, digitsAt), LAMBDA digitsEnd :
            IF digitsEnd = digitsAt THEN 0
            ELSE ExponentValue(str, digitsAt, digitsEnd, 0)
                    * (IF At(str, e + 1) = "-" THEN -1 ELSE 1)))

\* the digits of number / 5, for a number whose last digit is 5: those of
\* 2 * number without the last
Fifth(digits) ==
    [i \in 1..Len(digits) |->
        ToString((IF i = 1 THEN 0 ELSE (2 * DigitValue(digits[i - 1])) % 10)
                 + (IF DigitValue(digits[i]) >= 5 THEN 1 ELSE 0))]

\* number * 2^twos / 10^places for the number its digits spell, which is not
\* 0: whether it is whole, and then its digits and the twos not used up
RECURSIVE Scaled(_, _, _)
Scaled(digits, places, twos) ==
    IF places <= 0 THEN [whole |-> TRUE, digits |-> digits, twos |-> twos]
    ELSE IF digits[Len(digits)] = "0"
    THEN Scaled(SubSeq(digits, 1, Len(digits) - 1), places - 1, twos)
    ELSE IF digits[Len(digits)] = "5" /\ twos > 0
    THEN Scaled(Fifth(digits), places - 1, twos - 1)
    ELSE [whole |-> FALSE, digits |-> digits, twos |-> twos]

\* strtod shifts the 53 bits of a mantissa below DBL_MIN to the right and
\* forgets the bit behind them: in a decimal text shifted by one place, a
\* value of 2^-1023 or more that is a quarter of 2^-1074 above a multiple
\* of 2^-1074 counts as that multiple
RoundBitOnly(digits, places) ==
    With(Scaled(digits, places, 1076), LAMBDA scaled :
        /\ scaled.whole
        /\ scaled.twos = 0
        /\ DecimalValue(scaled.digits, 0, Len(scaled.digits), 0) >= Pow2(53)
        /\ DecimalValue(scaled.digits, 0, Len(scaled.digits), 0) % 4 = 1)

\* what strtod makes of the decimal mantissa digits (zeros of them leading,
\* places of them behind the point) and the exponent: it reports ERANGE, and
\* std::stod throws std::out_of_range, when the value rounds beyond DBL_MAX
\* or, being below DBL_MIN before and after rounding, does not count as a
\* multiple of 2^-1074; a zero is returned whatever its exponent, with its
\* sign
stodValue(negative, digits, zeros, places, exponent) ==
    LET mantissa == DecimalValue(digits, 0, Len(digits), 0)
        \* the value is d.ddd... x 10^leading, d its first digit that is not 0
        leading == exponent + (Len(digits) - places) - zeros - 1
    IN IF digits = <<>> THEN NotConverted
       ELSE IF zeros = Len(digits)
       THEN Converted(IF negative THEN MinusZero ELSE Rat(0, 1))
       ELSE IF \/ leading > MaxExponent10
               \/ /\ leading = MaxExponent10
                  /\ CompareDigits(digits, zeros, OverflowDigits, 1) >= 0
       THEN NotConverted
       ELSE IF /\ \/ leading < -MaxExponent10
                  \/ /\ leading = -MaxExponent10
                     /\ CompareDigits(digits, zeros, UnderflowDigits, 1) < 0
               /\ ~Scaled(digits, places - exponent, 1074).whole
               /\ ~RoundBitOnly(digits, places - exponent)
       THEN NotConverted
       ELSE Converted(IF exponent >= places
                      THEN Rat((IF negative THEN -1 ELSE 1) * mantissa
                                   * Pow10(exponent - places), 1)
                      ELSE Rat((IF negative THEN -1 ELSE 1) * mantissa,
                               Pow10(places - exponent)))

\* the decimal form: digits, a point, digits, an exponent behind e or E; at
\* least one digit is needed
stodDecimal(str, start, negative) ==
    With(SkipDigits(str, start), LAMBDA whole :
    With(IF whole < Len(str) /\ At(str, whole) = "."
         THEN SkipDigits(str, whole + 1) ELSE whole, LAMBDA fraction :
    With(SubSeq(str, start + 1, whole) \o SubSeq(str, whole + 2, fraction), LAMBDA digits :
        stodValue(negative, digits, LeadingZeros(digits, 0),
                  IF fraction > whole THEN fraction - (whole + 1) ELSE 0,
                  IF digits = <<>> THEN 0 ELSE stodExponent(str, fraction, {"e", "E"})))))

\* the 54 bits of mantissa from its first on, and whether the bits behind
\* them are all 0, as strtod reads a hexadecimal mantissa
Bits54(mantissa) ==
    IF BitLength(mantissa) <= 54
    THEN [bits |-> mantissa * Pow2(54 - BitLength(mantissa)), rest |-> FALSE]
    ELSE [bits |-> mantissa \div Pow2(BitLength(mantissa) - 54),
          rest |-> mantissa % Pow2(BitLength(mantissa) - 54) # 0]

\* the value mantissa * 2^exponent of the hexadecimal form, with the range
\* rules of stodValue: 2^1024 - 2^970 is the least value that rounds beyond
\* DBL_MAX, 2^-1022 - 2^-1076 the least that rounds to a normal double. A
\* value below counts as a multiple of 2^-1074 when, of the bits shifted
\* out of its 53, none is set but perhaps the one behind them.
stodHexValue(negative, mantissa, exponent) ==
    LET \* 2^(top-1) <= mantissa * 2^exponent < 2^top
        top == BitLength(mantissa) + exponent
    IN IF mantissa = 0 THEN Converted(IF negative THEN MinusZero ELSE Rat(0, 1))
       ELSE IF \/ top > 1024
               \/ /\ top = 1024
                  /\ mantissa * Pow2(IF exponent > 970 THEN exponent - 970 ELSE 0)
                        >= (Pow2(54) - 1) * Pow2(IF exponent < 970 THEN 970 - exponent ELSE 0)
       THEN NotConverted
       ELSE IF /\ top <= -1022
               /\ mantissa * Pow2(IF exponent > -1076 THEN exponent + 1076 ELSE 0)
                     < (Pow2(54) - 1) * Pow2(IF exponent < -1076 THEN -1076 - exponent ELSE 0)
               /\ \/ top < -1074
                  \/ Bits54(mantissa).rest
                  \/ Bits54(mantissa).bits % Pow2(-1020 - top) > 1
       THEN NotConverted
       ELSE Converted(IF exponent >= 0
                      THEN Rat((IF negative THEN -1 ELSE 1) * mantissa * Pow2(exponent), 1)
                      ELSE Rat((IF negative THEN -1 ELSE 1) * mantissa, Pow2(-exponent)))

\* the hexadecimal form behind 0x: hex digits, a point, hex digits, a binary
\* exponent behind p or P; with no hex digit there, the 0 before the x is
\* what was read
stodHex(str, start, negative) ==
    With(SkipHexDigits(str, start), LAMBDA whole :
    With(IF whole < Len(str) /\ At(str, whole) = "."
         THEN SkipHexDigits(str, whole + 1) ELSE whole, LAMBDA fraction :
    With(SubSeq(str, start + 1, whole) \o SubSeq(str, whole + 2, fraction), LAMBDA digits :
        IF digits = <<>> THEN Converted(IF negative THEN MinusZero ELSE Rat(0, 1))
        ELSE stodHexValue(negative, HexNumber(digits, 0),
                          stodExponent(str, fraction, {"p", "P"})
                             - 4 * (IF fraction > whole THEN fraction - (whole + 1) ELSE 0)))))

\* whether the three letters of word, in either case, are at position pos
HasWord(str, pos, word) ==
    /\ pos + 2 < Len(str)
    /\ \A k \in 0..2 : At(str, pos + k) \in word[k + 1]

\* std::stod: strtod skips white space, reads a sign, then inf, nan, a
\* hexadecimal or a decimal number, and leaves the rest of the text alone;
\* std::stod throws std::invalid_argument when nothing was read
stod(str) ==
    With(SkipSpaces(str, 0), LAMBDA signAt :
    With(signAt < Len(str) /\ At(str, signAt) = "-", LAMBDA negative :
    With(IF signAt < Len(str) /\ At(str, signAt) \in {"+", "-"}
         THEN signAt + 1 ELSE signAt, LAMBDA start :
        IF HasWord(str, start, <<{"i", "I"}, {"n", "N"}, {"f", "F"}>>)
        THEN Converted(IF negative THEN MinusInfinity ELSE Infinity)
        ELSE IF HasWord(str, start, <<{"n", "N"}, {"a", "A"}, {"n", "N"}>>)
        THEN Converted(IF negative THEN MinusNaN ELSE NaN)
        ELSE IF start + 1 < Len(str) /\ At(str, start) = "0"
                /\ At(str, start + 1) \in {"x", "X"}
        THEN stodHex(str, start + 2, negative)
        ELSE stodDecimal(str, start, negative))))

\* the alternatives of ParamValue
Number(x) == [kind |-> "double", v |-> x]

String(str) == [kind |-> "string", v |-> str]

NumberArray(xs) == [kind |-> "vector<double>", v |-> xs]

StringArray(strs) == [kind |-> "vector<string>", v |-> strs]

\* a ParamMap is a function from keys to values; params[key] = value
EmptyMap == <<>>

Put(params, key, value) ==
    [k \in DOMAIN params \cup {key} |-> IF k = key THEN value ELSE params[k]]

\* token navigation; pos_ is passed along
current(tokens, pos) ==
    IF pos >= Len(tokens) THEN tokens[Len(tokens)] ELSE tokens[pos + 1]

peek(tokens, pos, offset) ==
    IF pos + offset >= Len(tokens) THEN tokens[Len(tokens)]
    ELSE tokens[pos + offset + 1]

check(tokens, pos, type) == current(tokens, pos).type = type

advance(tokens, pos) == IF pos < Len(tokens) THEN pos + 1 ELSE pos

\* what a parsing method hands back: its value, pos_ after it, and whether
\* it left by throwing std::runtime_error (expect) or std::out_of_range (stod)
Parsed(value, pos) == [value |-> value, pos |-> pos, thrown |-> FALSE]

Thrown(pos) == [value |-> String(<<>>), pos |-> pos, thrown |-> TRUE]

\* the loop of parseArray
RECURSIVE parseArrayLoop(_, _, _, _, _)
parseArrayLoop(tokens, pos, numbers, strings, isNumericArray) ==
    LET stop == [pos |-> pos, numbers |-> numbers, strings |-> strings,
                 isNumericArray |-> isNumericArray, thrown |-> FALSE]
    IN
    IF check(tokens, pos, "EndOfInput") \/ check(tokens, pos, "BracketClose")
    THEN stop
    ELSE IF check(tokens, pos, "Number")
    THEN With(stod(current(tokens, pos).value), LAMBDA x :
         With(advance(tokens, pos), LAMBDA next :
            IF x.thrown THEN [stop EXCEPT !.thrown = TRUE]
            ELSE IF check(tokens, next, "Comma")
            THEN parseArrayLoop(tokens, advance(tokens, next),
                                Append(numbers, x.value), strings, isNumericArray)
            ELSE [stop EXCEPT !.pos = next, !.numbers = Append(numbers, x.value)]))
    ELSE IF check(tokens, pos, "String") \/ check(tokens, pos, "Identifier")
    THEN With(advance(tokens, pos), LAMBDA next :
         With(Append(strings, current(tokens, pos).value), LAMBDA strings1 :
            IF check(tokens, next, "Comma")
            THEN parseArrayLoop(tokens, advance(tokens, next),
                                numbers, strings1, FALSE)
            ELSE [stop EXCEPT !.pos = next, !.strings = strings1,
                              !.isNumericArray = FALSE]))
    ELSE stop

parseArray(tokens, pos) ==
    LET hasBrackets == check(tokens, pos, "BracketOpen") IN
    With(parseArrayLoop(tokens,
                        IF hasBrackets THEN advance(tokens, pos) ELSE pos,
                        <<>>, <<>>, TRUE),
         LAMBDA loop :
           LET value == IF loop.isNumericArray /\ loop.numbers # <<>>
                        THEN NumberArray(loop.numbers)
                        ELSE IF loop.strings # <<>> THEN StringArray(loop.strings)
                        ELSE NumberArray(<<>>)
           IN IF loop.thrown THEN Thrown(loop.pos)
              ELSE IF ~hasBrackets THEN Parsed(value, loop.pos)
              ELSE IF check(tokens, loop.pos, "BracketClose")
              THEN Parsed(value, advance(tokens, loop.pos))
              ELSE Thrown(loop.pos))

\* an unsigned int, kept as its two 16-bit halves: hi * 65536 + lo
UInt(hi, lo) == <<hi, lo>>

\* the unsigned int a %x field stores for a digit string behind a '-'
Negated(n) == IF n = 0 THEN UInt(0, 0) ELSE UInt(65535, 65536 - n)

\* sscanf(hex, "%02x%02x..."): the fields assigned, reading from the 1-based
\* index i. White space before a field is skipped and does not count in its
\* width. A field is at most two characters wide: two hex digits, or one
\* hex digit before a character that is none, or a sign and one hex digit,
\* or the prefix 0x (which converts to 0); anything else ends the scan.
RECURSIVE sscanf(_, _, _, _)
sscanf(hex, i, fields, assigned) ==
    IF fields = 0 \/ i > Len(hex) THEN assigned
    ELSE IF isspace(hex[i]) THEN sscanf(hex, i + 1, fields, assigned)
    ELSE IF hex[i] \in {"+", "-"}
    THEN IF i + 1 <= Len(hex) /\ isHexDigit(hex[i + 1])
         THEN sscanf(hex, i + 2, fields - 1,
                     Append(assigned, IF hex[i] = "-" THEN Negated(HexValue(hex[i + 1]))
                                      ELSE UInt(0, HexValue(hex[i + 1]))))
         ELSE assigned
    ELSE IF ~isHexDigit(hex[i]) THEN assigned
    ELSE IF hex[i] = "0" /\ i + 1 <= Len(hex) /\ hex[i + 1] \in {"x", "X"}
    THEN sscanf(hex, i + 2, fields - 1, Append(assigned, UInt(0, 0)))
    ELSE IF i + 1 <= Len(hex) /\ isHexDigit(hex[i + 1])
    THEN sscanf(hex, i + 2, fields - 1,
                Append(assigned, UInt(0, 16 * HexValue(hex[i]) + HexValue(hex[i + 1]))))
    ELSE sscanf(hex, i + 1, fields - 1, Append(assigned, UInt(0, HexValue(hex[i]))))

\* the double u / 255.0 of an unsigned int: 65536 = 257 * 255 + 1, so u is
\* whole * 255 + rest. A quotient whose numerator is beyond the integers at
\* hand is the triple <<whole, n, d>>, standing for whole + n/d.
Over255(u) ==
    LET whole == 257 * u[1] + (u[1] + u[2]) \div 255
        rest == (u[1] + u[2]) % 255
    IN IF u[1] < 32768 THEN Rat(u[1] * 65536 + u[2], 255)
       ELSE IF rest = 0 THEN Rat(whole, 1)
       ELSE <<whole>> \o Rat(rest, 255)

parseHexColor(tokens, pos) ==
    IF ~check(tokens, pos, "Hash") THEN Thrown(pos)
    ELSE LET digitsAt == advance(tokens, pos) IN
    IF ~check(tokens, digitsAt, "Identifier") /\ ~check(tokens, digitsAt, "Number")
    THEN Parsed(NumberArray(<<Rat(1, 1), Rat(1, 1), Rat(1, 1)>>), digitsAt)
    ELSE LET hex == current(tokens, digitsAt).value IN
         With(IF Len(hex) = 6 THEN sscanf(hex, 1, 3, <<>>)
              ELSE IF Len(hex) = 8 THEN sscanf(hex, 1, 4, <<>>)
              ELSE <<>>,
              LAMBDA assigned :
         LET r == IF Len(assigned) >= 1 THEN assigned[1] ELSE UInt(0, 0)
             g == IF Len(assigned) >= 2 THEN assigned[2] ELSE UInt(0, 0)
             b == IF Len(assigned) >= 3 THEN assigned[3] ELSE UInt(0, 0)
             a == IF Len(assigned) >= 4 THEN assigned[4] ELSE UInt(0, 255)
         IN Parsed(NumberArray(<<Over255(r), Over255(g), Over255(b), Over255(a)>>),
                   advance(tokens, digitsAt)))

parseValue(tokens, pos) ==
    IF check(tokens, pos, "Hash") THEN parseHexColor(tokens, pos)
    ELSE IF check(tokens, pos, "String")
    THEN Parsed(String(current(tokens, pos).value), advance(tokens, pos))
    ELSE IF check(tokens, pos, "Number")
    THEN IF /\ peek(tokens, pos, 1).type = "Comma"
            /\ peek(tokens, pos, 2).type = "Number"
         THEN parseArray(tokens, pos)
         ELSE With(stod(current(tokens, pos).value), LAMBDA x :
                 IF x.thrown THEN Thrown(pos)
                 ELSE Parsed(Number(x.value), advance(tokens, pos)))
    ELSE IF check(tokens, pos, "Identifier")
    THEN Parsed(String(current(tokens, pos).value), advance(tokens, pos))
    ELSE IF check(tokens, pos, "BracketOpen") THEN parseArray(tokens, pos)
    ELSE Parsed(String(<<>>), advance(tokens, pos))

\* how one turn of the loop of parseParams ends: with the map and pos_,
\* leaving the loop (done) or not, or by throwing
Turn(params, pos, done, thrown) ==
    [params |-> params, pos |-> pos, done |-> done, thrown |-> thrown]

\* parseParam, had a token that is no parameter name been an error
parseParam_RejectsUnexpected(tokens, pos, params) ==
    IF ~check(tokens, pos, "Identifier")
    THEN Turn(params, pos, TRUE, TRUE)
    ELSE LET key == current(tokens, pos).value
             equalsAt == advance(tokens, pos)
         IN IF ~check(tokens, equalsAt, "Equals")
            THEN Turn(params, equalsAt, TRUE, TRUE)
            ELSE With(parseValue(tokens, advance(tokens, equalsAt)), LAMBDA value :
                    IF value.thrown THEN Turn(params, value.pos, TRUE, TRUE)
                    ELSE IF check(tokens, value.pos, "Comma")
                    THEN Turn(Put(params, key, value.value),
                              advance(tokens, value.pos), FALSE, FALSE)
                    ELSE Turn(Put(params, key, value.value), value.pos, TRUE, FALSE))

\* one turn of the loop of parseParams
parseParam(tokens, pos, params) ==
    IF ~check(tokens, pos, "Identifier")
    THEN Turn(params, advance(tokens, pos), FALSE, FALSE)
    ELSE LET key == current(tokens, pos).value
             equalsAt == advance(tokens, pos)
         IN IF ~check(tokens, equalsAt, "Equals")
            THEN Turn(params, equalsAt, TRUE, TRUE)
            ELSE With(parseValue(tokens, advance(tokens, equalsAt)), LAMBDA value :
                    IF value.thrown THEN Turn(params, value.pos, TRUE, TRUE)
                    ELSE IF check(tokens, value.pos, "Comma")
                    THEN Turn(Put(params, key, value.value),
                              advance(tokens, value.pos), FALSE, FALSE)
                    ELSE Turn(Put(params, key, value.value), value.pos, TRUE, FALSE))

RECURSIVE parseParamsLoop(_, _, _)
parseParamsLoop(tokens, pos, params) ==
    IF check(tokens, pos, "EndOfInput") \/ check(tokens, pos, "ParenClose")
    THEN Turn(params, pos, TRUE, FALSE)
    ELSE With(parseParam(tokens, pos, params), LAMBDA turn :
            IF turn.done THEN turn
            ELSE parseParamsLoop(tokens, turn.pos, turn.params))

parseParams(tokens) == parseParamsLoop(tokens, 0, EmptyMap)

\* parse, had the map built before the exception been handed out
AnnotationParser_parse_ReturnsPartial(tokens) == parseParams(tokens).params

\* AnnotationParser::parse(const std::vector<Token>&)
AnnotationParser_parse(tokens) ==
    With(parseParams(tokens), LAMBDA result :
        IF result.thrown THEN EmptyMap ELSE result.params)

\* AnnotationParser::parse(const std::string&)
AnnotationParser_parseString(str) ==
    With(tokenize(str), LAMBDA tokens : AnnotationParser_parse(tokens))

\* ------------------------------------------------------------------------
\* Direct calls of AnnotationLexer::tokenize on short strings
\* ------------------------------------------------------------------------
\* the strings handed to tokenize hold at most MaxChars characters
MaxChars == 3

\* a letter, a digit, the characters of a number, a single-character token,
\* a quote, the escape character, a blank and a character of no token
LexChars == {"a", "1", "-", ".", "e", "=", "'", "\\", " ", "$"}

LexStrings == UNION {[1..n -> LexChars] : n \in 0..MaxChars}

LexInit ==
    /\ NoCoordinator
    /\ call = "none"
    /\ input \in LexStrings
    /\ output = <<>>

\* std::vector<Token> tokens = AnnotationLexer::tokenize(input)
Tokenize ==
    /\ call = "none"
    /\ call' = "tokenize"
    /\ output' = tokenize(input)
    /\ UNCHANGED input
    /\ UNCHANGED coordinatorVars

LexNext == Tokenize

LexSpec == LexInit /\ [][LexNext]_vars

\* ------------------------------------------------------------------------
\* Direct calls of AnnotationParser::parse on parameter lists
\* ------------------------------------------------------------------------
\* the parameter lists handed to parse hold at most MaxParams parameters
MaxParams == 2

\* the separators between the parameters of a list: ", " and " "
CommaSep == <<",", " ">>

BlankSep == <<" ">>

\* names that no '=' follows: a, b, max
BareNames == { <<"a">>, <<"b">>, <<"m", "a", "x">> }

\* a value without a name: =3
Nameless == <<"=", "3">>

\* parameters with one number: min=0, max=1
ScalarMin == <<"m", "i", "n", "=", "0">>

ScalarMax == <<"m", "a", "x", "=", "1">>

\* parameters with an array without brackets:
\* default=1.0,0.5,0.2 and default=1.0,0.5
Array3 == <<"d", "e", "f", "a", "u", "l", "t", "=", "1", ".", "0", ",", "0", ".", "5", ",", "0", ".", "2">>

Array2 == <<"d", "e", "f", "a", "u", "l", "t", "=", "1", ".", "0", ",", "0", ".", "5">>

\* parameters with a hex colour: c=#FF8800, c=#1a2b3c, c=#112233,
\* c=#ff000080, c=#80ff0000
ColorFF8800 == <<"c", "=", "#", "F", "F", "8", "8", "0", "0">>

Color1a2b3c == <<"c", "=", "#", "1", "a", "2", "b", "3", "c">>

Color112233 == <<"c", "=", "#", "1", "1", "2", "2", "3", "3">>

Colorff000080 == <<"c", "=", "#", "f", "f", "0", "0", "0", "0", "8", "0">>

Color80ff0000 == <<"c", "=", "#", "8", "0", "f", "f", "0", "0", "0", "0">>

\* parameters with a hex colour of four and of five digits: c=#FF88, c=#12345
ColorFF88 == <<"c", "=", "#", "F", "F", "8", "8">>

Color12345 == <<"c", "=", "#", "1", "2", "3", "4", "5">>

ParamTexts ==
    BareNames \cup
    { Nameless, ScalarMin, ScalarMax, Array3, Array2, ColorFF8800,
      Color1a2b3c, Color112233, Colorff000080, Color80ff0000,
      ColorFF88, Color12345 }

\* the lists of n parameters: texts and separators in turn
RECURSIVE ParamLists(_)
ParamLists(n) ==
    IF n = 0 THEN {<<>>}
    ELSE IF n = 1 THEN {<<p>> : p \in ParamTexts}
    ELSE {l \o <<sep, p>> : l \in ParamLists(n - 1),
                             sep \in {CommaSep, BlankSep},
                             p \in ParamTexts}

\* the string a list of texts spells
RECURSIVE Flatten(_)
Flatten(pieces) ==
    IF pieces = <<>> THEN <<>> ELSE Head(pieces) \o Flatten(Tail(pieces))

ParseInit ==
    /\ NoCoordinator
    /\ call = "none"
    /\ input \in UNION {ParamLists(n) : n \in 0..MaxParams}
    /\ output = <<>>

\* ParamMap params = AnnotationParser::parse(input)
Parse ==
    /\ call = "none"
    /\ call' = "parse"
    /\ \E str \in {Flatten(input)} : output' = AnnotationParser_parseString(str)
    /\ UNCHANGED input
    /\ UNCHANGED coordinatorVars

ParseNext == Parse

ParseSpec == ParseInit /\ [][ParseNext]_vars

\* ------------------------------------------------------------------------
\* UniformParser::toDisplayName
\* ------------------------------------------------------------------------
Lowercase ==
    <<"a", "b", "c", "d", "e", "f", "g", "h", "i", "j", "k", "l", "m",
      "n", "o", "p", "q", "r", "s", "t", "u", "v", "w", "x", "y", "z">>

Uppercase ==
    <<"A", "B", "C", "D", "E", "F", "G", "H", "I", "J", "K", "L", "M",
      "N", "O", "P", "Q", "R", "S", "T", "U", "V", "W", "X", "Y", "Z">>

\* std::isupper, std::toupper and ::tolower in the "C" locale
isupper(c) == \E i \in DOMAIN Uppercase : Uppercase[i] = c

toupper(c) ==
    IF \E i \in DOMAIN Lowercase : Lowercase[i] = c
    THEN Uppercase[CHOOSE i \in DOMAIN Lowercase : Lowercase[i] = c]
    ELSE c

tolower(c) ==
    IF \E i \in DOMAIN Uppercase : Uppercase[i] = c
    THEN Lowercase[CHOOSE i \in DOMAIN Uppercase : Uppercase[i] = c]
    ELSE c

\* the prefix test: size_t start = 0 or 1
DisplayStart(name) ==
    IF Len(name) > 1 /\ At(name, 0) \in {"u", "_"} /\ isupper(At(name, 1))
    THEN 1 ELSE 0

\* the loop of toDisplayName over name[i], i = start .. length-1
RECURSIVE toDisplayLoop(_, _, _, _)
toDisplayLoop(name, start, i, result) ==
    IF i >= Len(name) THEN result
    ELSE LET c == At(name, i) IN
         toDisplayLoop(name, start, i + 1,
             IF c = "_" THEN Append(result, " ")
             ELSE IF i > start /\ isupper(c) /\ ~isupper(At(name, i - 1))
             THEN result \o <<" ", c>>
             ELSE IF i = start THEN Append(result, toupper(c))
             ELSE Append(result, c))

toDisplayName(name) == toDisplayLoop(name, DisplayStart(name), DisplayStart(name), <<>>)

\* ------------------------------------------------------------------------
\* Direct calls of UniformParser::toDisplayName
\* ------------------------------------------------------------------------
\* the short names hold at most MaxName characters
MaxName == 4

\* the prefix letter, the underscore, a lower-case and an upper-case letter
NameChars == {"u", "_", "a", "B"}

\* the two names of the documentation: uMySpeed and speed_factor
NameUMySpeed == <<"u", "M", "y", "S", "p", "e", "e", "d">>

NameSpeedFactor == <<"s", "p", "e", "e", "d", "_", "f", "a", "c", "t", "o", "r">>

Names ==
    UNION {[1..n -> NameChars] : n \in 0..MaxName}
        \cup {NameUMySpeed, NameSpeedFactor}

NameInit ==
    /\ NoCoordinator
    /\ call = "none"
    /\ input \in Names
    /\ output = <<>>

\* u.displayName = toDisplayName(name)
ToDisplayName ==
    /\ call = "none"
    /\ call' = "toDisplayName"
    /\ output' = toDisplayName(input)
    /\ UNCHANGED input
    /\ UNCHANGED coordinatorVars

NameNext == ToDisplayName

NameSpec == NameInit /\ [][NameNext]_vars

\* ------------------------------------------------------------------------
\* The typed getters of AnnotationParser
\* ------------------------------------------------------------------------
\* the decimal digits of a natural number
RECURSIVE DigitsOf(_)
DigitsOf(n) ==
    IF n < 10 THEN <<ToString(n)>> ELSE Append(DigitsOf(n \div 10), ToString(n % 10))

\* ----- conversions of double -----
Abs(n) == IF n < 0 THEN -n ELSE n

\* a double other than the zeros, the infinities and the NaNs; FLT_MAX and
\* -FLT_MAX, written <<1, 0>> and <<-1, 0>>, are left as they are written
IsFraction(x) == Len(x) = 3 \/ (Len(x) = 2 /\ x[2] > 0 /\ x[1] # 0)

IsNegative(x) ==
    x \in {MinusZero, MinusInfinity, MinusNaN} \/ (Len(x) > 1 /\ x[1] < 0)

\* numerator and denominator of a double written whole + n/d
Fraction(x) == IF Len(x) = 3 THEN <<x[1] * x[3] + x[2], x[3]>> ELSE x

\* the magnitude with the sign put back; a zero keeps the sign
Signed(negative, magnitude) ==
    IF ~negative THEN magnitude
    ELSE IF magnitude[1] = 0 THEN MinusZero
    ELSE <<-magnitude[1], magnitude[2]>>

\* the largest e with 2^e <= n / d, for n and d above 0
FloorLog2(n, d) ==
    IF n >= d THEN BitLength(n \div d) - 1 ELSE -BitLength((d - 1) \div n)

\* n / d rounded to a whole number, a tie to the even one
RoundHalfEven(n, d) ==
    IF 2 * (n % d) > d \/ (2 * (n % d) = d /\ (n \div d) % 2 = 1)
    THEN n \div d + 1 ELSE n \div d

RECURSIVE OddPart(_)
OddPart(n) == IF n % 2 = 0 THEN OddPart(n \div 2) ELSE n

\* whether a binary format with a mantissa of so many bits, whose least
\* quantum is 2^least, holds n / d (in lowest terms) exactly
Representable(n, d, bits, least) ==
    /\ d = Pow2(BitLength(d) - 1)
    /\ BitLength(d) - 1 <= -least
    /\ BitLength(OddPart(n)) <= bits

\* the value of that format nearest to n / d, a tie to the even mantissa
Nearest(n, d, bits, least) ==
    IF Representable(n, d, bits, least) THEN <<n, d>>
    ELSE With(IF FloorLog2(n, d) - bits + 1 > least
              THEN FloorLog2(n, d) - bits + 1 ELSE least, LAMBDA quantum :
            IF quantum >= 0
            THEN Rat(RoundHalfEven(n, d * Pow2(quantum)) * Pow2(quantum), 1)
            ELSE Rat(RoundHalfEven(n * Pow2(-quantum), d), Pow2(-quantum)))

\* the double a fraction stands for
Double(x) ==
    IF ~IsFraction(x) THEN x
    ELSE With(Fraction(x), LAMBDA f :
            Signed(f[1] < 0, Nearest(Abs(f[1]), f[2], 53, -1074)))

\* static_cast<float>(double): the nearest float, a tie to the even
\* mantissa, and an infinity from 2^128 - 2^103 on. (A fraction below 2^24
\* whose denominator is below 2^28 is farther from every tie of two floats
\* than from its double, so it rounds as its double does.)
static_cast_float(x) ==
    IF ~IsFraction(x) THEN x
    ELSE With(Fraction(x), LAMBDA f :
         With(IF BitLength(f[2]) <= 28 /\ BitLength(Abs(f[1]) \div f[2]) <= 24
              THEN <<Abs(f[1]), f[2]>>
              ELSE Nearest(Abs(f[1]), f[2], 53, -1074), LAMBDA double :
         With(Nearest(double[1], double[2], 24, -149), LAMBDA float :
            IF float[1] # 0 /\ FloorLog2(float[1], float[2]) >= 128
            THEN (IF f[1] < 0 THEN MinusInfinity ELSE Infinity)
            ELSE Signed(f[1] < 0, float))))

\* the values of int
Int32 == (-2147483647 - 1)..2147483647

\* static_cast<int>(double): the outcomes. The fraction is cut off; for an
\* infinity, a NaN and a double whose whole part is no int the behaviour is
\* undefined, and any int may come out.
static_cast_int(x) ==
    IF x \in {Rat(0, 1), MinusZero} THEN {0}
    ELSE IF ~IsFraction(x) THEN Int32
    ELSE With(Double(x), LAMBDA double :
         With(Abs(double[1]) \div double[2], LAMBDA whole :
            IF double[1] > 0 /\ whole <= 2147483647 THEN {whole}
            ELSE IF double[1] < 0 /\ whole - 1 <= 2147483647 THEN {-whole}
            ELSE Int32))

\* std::to_string(double) prints with "%f": the sign, and the double
\* rounded to six digits after the point, a tie to the even digit
to_string(x) ==
    IF x \in {Infinity, MinusInfinity} THEN (IF IsNegative(x) THEN <<"-">> ELSE <<>>) \o <<"i", "n", "f">>
    ELSE IF x \in {NaN, MinusNaN} THEN (IF IsNegative(x) THEN <<"-">> ELSE <<>>) \o <<"n", "a", "n">>
    ELSE With(Double(x), LAMBDA double :
         With(RoundHalfEven(Abs(double[1]) * 1000000, Abs(double[2])), LAMBDA millionths :
            (IF IsNegative(x) THEN <<"-">> ELSE <<>>)
                \o DigitsOf(millionths \div 1000000) \o <<".">>
                \o Tail(DigitsOf(1000000 + (millionths % 1000000)))))

getNumber(params, key, defaultVal) ==
    IF key \notin DOMAIN params THEN defaultVal
    ELSE IF params[key].kind = "double" THEN params[key].v
    ELSE IF params[key].kind = "string"
    THEN With(stod(params[key].v), LAMBDA x :
            IF x.thrown THEN defaultVal ELSE x.value)
    ELSE defaultVal

getString(params, key, defaultVal) ==
    IF key \notin DOMAIN params THEN defaultVal
    ELSE IF params[key].kind = "string" THEN params[key].v
    ELSE IF params[key].kind = "double" THEN to_string(params[key].v)
    ELSE defaultVal

getNumberArray(params, key) ==
    IF key \notin DOMAIN params THEN <<>>
    ELSE IF params[key].kind = "vector<double>" THEN params[key].v
    ELSE IF params[key].kind = "double" THEN <<params[key].v>>
    ELSE <<>>

getBool(params, key, defaultVal) ==
    With(getString(params, key, <<>>), LAMBDA text :
        LET str == [i \in DOMAIN text |-> tolower(text[i])]
        IN IF str \in {<<"t", "r", "u", "e">>, <<"1">>, <<"y", "e", "s">>} THEN TRUE
           ELSE IF str \in {<<"f", "a", "l", "s", "e">>, <<"0">>, <<"n", "o">>} THEN FALSE
           ELSE defaultVal)

\* ------------------------------------------------------------------------
\* UniformParser: the builders and the scan, on the parsed parameters
\* ------------------------------------------------------------------------
\* FLT_MAX, (2^24 - 1) * 2^104, is kept as a name: it converts to itself
FLT_MAX == <<1, 0>>

MinusFLT_MAX == <<-1, 0>>

\* the alternatives of UniformVariant, with the members the builders set
FloatUniform(name, min, max, def, step) ==
    [tag |-> "FloatUniform", name |-> name, displayName |-> toDisplayName(name),
     controlType |-> "Slider", value |-> def, defaultValue |-> def,
     minValue |-> min, maxValue |-> max, step |-> step, location |-> -1]

IntUniform(name, min, max, def) ==
    [tag |-> "IntUniform", name |-> name, displayName |-> toDisplayName(name),
     controlType |-> "Slider", value |-> def, defaultValue |-> def,
     minValue |-> min, maxValue |-> max, location |-> -1]

BoolUniform(name, def) ==
    [tag |-> "BoolUniform", name |-> name, displayName |-> toDisplayName(name),
     controlType |-> "Checkbox", value |-> def, defaultValue |-> def,
     location |-> -1]

\* Vec2Uniform, Vec3Uniform and Vec4Uniform: tag names the struct
VecUniform(tag, name, def, min, max, step) ==
    [tag |-> tag, name |-> name, displayName |-> toDisplayName(name),
     controlType |-> IF tag = "Vec2Uniform" THEN "Vec2"
                     ELSE IF tag = "Vec3Uniform" THEN "Vec3" ELSE "Vec4",
     value |-> def, defaultValue |-> def,
     minValue |-> min, maxValue |-> max, step |-> step, location |-> -1]

ColorUniform(name, def, hasAlpha) ==
    [tag |-> "ColorUniform", name |-> name, displayName |-> toDisplayName(name),
     controlType |-> "ColorPicker", value |-> def, defaultValue |-> def,
     hasAlpha |-> hasAlpha, location |-> -1]

\* glm::vec4(a, b, c, d) of doubles: each is converted to float
glm_vec(doubles) == [i \in DOMAIN doubles |-> static_cast_float(doubles[i])]

\* a builder returns std::optional: a sequence of one descriptor, or none;
\* parseSlider returns one for each outcome of its conversions
UniformParser_parseSlider(type, name, params) ==
    IF type = "float"
    THEN {<<FloatUniform(name,
                static_cast_float(getNumber(params, <<"m", "i", "n">>, Rat(0, 1))),
                static_cast_float(getNumber(params, <<"m", "a", "x">>, Rat(1, 1))),
                static_cast_float(getNumber(params, <<"d", "e", "f", "a", "u", "l", "t">>, Rat(0, 1))),
                static_cast_float(getNumber(params, <<"s", "t", "e", "p">>, Rat(1, 100))))>>}
    ELSE IF type = "int"
    THEN {<<IntUniform(name, min, max, def)>> :
            min \in static_cast_int(getNumber(params, <<"m", "i", "n">>, Rat(0, 1))),
            max \in static_cast_int(getNumber(params, <<"m", "a", "x">>, Rat(100, 1))),
            def \in static_cast_int(getNumber(params, <<"d", "e", "f", "a", "u", "l", "t">>, Rat(0, 1)))}
    ELSE {<<>>}

UniformParser_parseColor(type, name, params) ==
    IF type # "vec3" /\ type # "vec4" THEN <<>>
    ELSE With(getNumberArray(params, <<"d", "e", "f", "a", "u", "l", "t">>), LAMBDA defaultArr :
            <<ColorUniform(name,
                  IF Len(defaultArr) >= 4 THEN glm_vec(SubSeq(defaultArr, 1, 4))
                  ELSE IF Len(defaultArr) >= 3 THEN glm_vec(Append(defaultArr, Rat(1, 1)))
                  ELSE <<Rat(1, 1), Rat(1, 1), Rat(1, 1), Rat(1, 1)>>,
                  type = "vec4")>>)

UniformParser_parseCheckbox(type, name, params) ==
    IF type # "int" /\ type # "bool" THEN <<>>
    ELSE <<BoolUniform(name, getBool(params, <<"d", "e", "f", "a", "u", "l", "t">>, FALSE))>>

\* the branches of parseVec share the bounds and the step
UniformParser_parseVec(type, name, params) ==
    With(getNumberArray(params, <<"d", "e", "f", "a", "u", "l", "t">>), LAMBDA defaultArr :
        LET min == static_cast_float(getNumber(params, <<"m", "i", "n">>, MinusFLT_MAX))
            max == static_cast_float(getNumber(params, <<"m", "a", "x">>, FLT_MAX))
            step == static_cast_float(getNumber(params, <<"s", "t", "e", "p">>, Rat(1, 100)))
            zero == Rat(0, 1)
        IN IF type = "vec2"
           THEN <<VecUniform("Vec2Uniform", name,
                      IF Len(defaultArr) >= 2 THEN glm_vec(SubSeq(defaultArr, 1, 2))
                      ELSE <<zero, zero>>,
                      min, max, step)>>
           ELSE IF type = "vec3"
           THEN <<VecUniform("Vec3Uniform", name,
                      IF Len(defaultArr) >= 3 THEN glm_vec(SubSeq(defaultArr, 1, 3))
                      ELSE <<zero, zero, zero>>,
                      min, max, step)>>
           ELSE IF type = "vec4"
           THEN <<VecUniform("Vec4Uniform", name,
                      IF Len(defaultArr) >= 4 THEN glm_vec(SubSeq(defaultArr, 1, 4))
                      ELSE IF Len(defaultArr) >= 3 THEN glm_vec(Append(defaultArr, Rat(1, 1)))
                      ELSE <<zero, zero, zero, zero>>,
                      min, max, step)>>
           ELSE <<>>)

\* a match of annotationRegex: match[1] .. match[4]
Match(annotationType, params, uniformType, uniformName) ==
    [annotationType |-> annotationType, params |-> params,
     uniformType |-> uniformType, uniformName |-> uniformName]

\* the body of the loop of UniformParser::parse for one match: what the
\* builder returns, for each outcome of its conversions
UniformParser_parseMatch(match) ==
    With(AnnotationParser_parseString(match.params), LAMBDA parsedParams :
        IF match.annotationType = "slider"
        THEN UniformParser_parseSlider(match.uniformType, match.uniformName, parsedParams)
        ELSE IF match.annotationType = "color"
        THEN {UniformParser_parseColor(match.uniformType, match.uniformName, parsedParams)}
        ELSE IF match.annotationType = "checkbox"
        THEN {UniformParser_parseCheckbox(match.uniformType, match.uniformName, parsedParams)}
        ELSE IF match.annotationType \in {"vec2", "vec3", "vec4"}
        THEN {UniformParser_parseVec(match.uniformType, match.uniformName, parsedParams)}
        ELSE {<<>>})

\* scanMatches, had the scan ended at the first annotation without a descriptor
RECURSIVE UniformParser_scanMatches_StopsAtSkipped(_)
UniformParser_scanMatches_StopsAtSkipped(matches) ==
    IF matches = <<>> THEN {<<>>}
    ELSE {IF uniform = <<>> THEN <<>> ELSE uniform \o rest :
            uniform \in UniformParser_parseMatch(Head(matches)),
            rest \in UniformParser_scanMatches_StopsAtSkipped(Tail(matches))}

\* UniformParser::parse on the matches the regex iterator finds in the
\* source, in source order: the collections it can return
RECURSIVE UniformParser_scanMatches(_)
UniformParser_scanMatches(matches) ==
    IF matches = <<>> THEN {<<>>}
    ELSE {uniform \o rest :
            uniform \in UniformParser_parseMatch(Head(matches)),
            rest \in UniformParser_scanMatches(Tail(matches))}

\* ------------------------------------------------------------------------
\* Direct calls of UniformParser::parse on sources of a few annotations
\* ------------------------------------------------------------------------
\* a source holds at most MaxAnnotations annotated declarations
MaxAnnotations == 2

\* // @slider(min=1, max=2, default=1) before a float and an int
SliderFloat ==
    Match("slider", <<"m", "i", "n", "=", "1", ",", " ", "m", "a", "x", "=", "2", ",", " ", "d", "e", "f", "a", "u", "l", "t", "=", "1">>, "float", <<"u", "M", "y", "S", "p", "e", "e", "d">>)

SliderInt ==
    Match("slider", <<"m", "i", "n", "=", "1", ",", " ", "m", "a", "x", "=", "2", ",", " ", "d", "e", "f", "a", "u", "l", "t", "=", "1">>, "int", <<"u", "C", "o", "u", "n", "t">>)

\* a parameter list with a parse error: max has no '='
SliderParseError == Match("slider", <<"m", "i", "n", "=", "1", ",", " ", "m", "a", "x">>, "float", <<"u", "S", "p", "e", "e", "d">>)

\* @slider before a type the builder rejects
SliderVec2 == Match("slider", <<>>, "vec2", <<"u", "P">>)

\* // @checkbox(default=...) with each spelling of a truth value, another
\* word, and no parameter
CheckboxTexts ==
    { <<"d", "e", "f", "a", "u", "l", "t", "=", "t", "r", "u", "e">>, <<"d", "e", "f", "a", "u", "l", "t", "=", "1">>, <<"d", "e", "f", "a", "u", "l", "t", "=", "Y", "E", "S">>, <<"d", "e", "f", "a", "u", "l", "t", "=", "f", "a", "l", "s", "e">>,
      <<"d", "e", "f", "a", "u", "l", "t", "=", "0">>, <<"d", "e", "f", "a", "u", "l", "t", "=", "N", "o">>, <<"d", "e", "f", "a", "u", "l", "t", "=", "m", "a", "y", "b", "e">>, <<>> }

Checkboxes == {Match("checkbox", text, "int", <<"u", "O", "n">>) : text \in CheckboxTexts}

\* @checkbox before a type the builder rejects
CheckboxFloat == Match("checkbox", <<"d", "e", "f", "a", "u", "l", "t", "=", "1">>, "float", <<"u", "O", "n">>)

\* // @vec2, @vec3 and @vec4 before declarations of each vector type and a float
VecMatches ==
    {Match(directive, <<"d", "e", "f", "a", "u", "l", "t", "=", "1", ",", "2">>, type, <<"u", "P">>) :
        directive \in {"vec2", "vec3", "vec4"},
        type \in {"vec2", "vec3", "vec4", "float"}}

\* // @color(default=#FF8800) before a vec3 and before a float
ColorVec3 == Match("color", <<"d", "e", "f", "a", "u", "l", "t", "=", "#", "F", "F", "8", "8", "0", "0">>, "vec3", <<"u", "T", "i", "n", "t">>)

ColorFloat == Match("color", <<"d", "e", "f", "a", "u", "l", "t", "=", "#", "F", "F", "8", "8", "0", "0">>, "float", <<"u", "T", "i", "n", "t">>)

\* a directive no builder is registered for
UnknownDirective == Match("knob", <<"d", "e", "f", "a", "u", "l", "t", "=", "1">>, "float", <<"u", "X">>)

Annotations ==
    {SliderFloat, SliderInt, SliderParseError, SliderVec2, CheckboxFloat,
     ColorVec3, ColorFloat, UnknownDirective}
        \cup Checkboxes \cup VecMatches

ScanInit ==
    /\ NoCoordinator
    /\ call = "none"
    /\ input \in UNION {[1..n -> Annotations] : n \in 0..MaxAnnotations}
    /\ output = <<>>

\* UniformCollection collection = UniformParser::parse(shaderSource)
Scan ==
    /\ call = "none"
    /\ call' = "scan"
    /\ output' \in UniformParser_scanMatches(input)
    /\ UNCHANGED input
    /\ UNCHANGED coordinatorVars

ScanNext == Scan

ScanSpec == ScanInit /\ [][ScanNext]_vars

\* ------------------------------------------------------------------------
\* UniformParser::parse on the lines of a flattened source
\* ------------------------------------------------------------------------
\* the text between the parentheses of the annotation of a "uni" line
ParamsText(line) ==
    <<"d", "e", "f", "a", "u", "l", "t", "=">> \o DigitsOf(line.def)
        \o <<",", " ", "m", "a", "x", "=">> \o DigitsOf(line.max)

\* the matches annotationRegex finds in the source, in source order: one
\* for each annotation comment that a uniform declaration follows
RECURSIVE Matches(_)
Matches(shaderSource) ==
    IF shaderSource = <<>> THEN <<>>
    ELSE LET line == Head(shaderSource)
         IN (IF line.k = "uni"
             THEN <<Match(line.directive, ParamsText(line), line.type, line.name)>>
             ELSE <<>>) \o Matches(Tail(shaderSource))

UniformParser_parse(shaderSource) == UniformParser_scanMatches(Matches(shaderSource))

\* what ShaderPreprocessor::process makes of the files of every disk
FlattenedSources == {process(fs, p).source : fs \in Disks, p \in Files}

\* the collections UniformParser::parse(src) can return for each of these
\* sources, computed once
ParsedSources == [src \in FlattenedSources |-> UniformParser_parse(src)]

\* ------------------------------------------------------------------------
\* UniformEditor
\* ------------------------------------------------------------------------
\* UniformEditor::resetToDefaults
resetToDefaults(collection) ==
    [i \in DOMAIN collection |->
        [collection[i] EXCEPT !.value = collection[i].defaultValue]]

\* glGetUniformLocation: the position of the first declaration of the name
\* among the uniform declarations of the linked source
RECURSIVE DeclIndex(_, _, _)
DeclIndex(src, name, n) ==
    IF src = <<>> THEN -1
    ELSE IF Head(src).k = "uni" /\ Head(src).name = name THEN n
    ELSE DeclIndex(Tail(src), name, IF Head(src).k = "uni" THEN n + 1 ELSE n)

\* UniformEditor::updateLocations
updateLocations(collection, linkedSource) ==
    [i \in DOMAIN collection |->
        [collection[i] EXCEPT !.location = DeclIndex(linkedSource, collection[i].name, 0)]]

\* ------------------------------------------------------------------------
\* ShaderLayer (the reload coordinator)
\* ------------------------------------------------------------------------
VertexErrorLog == <<"VERTEX SHADER ERROR:">>

CompileErrorLog == <<"FRAGMENT SHADER ERROR:">>

LinkErrorLog == <<"SHADER LINK ERROR:">>

\* tryCompileShader on the default vertex shader and a flattened source:
\* the vertex shader is compiled first, then the fragment shader, then the
\* two are linked; the first step that fails gives the error log
tryCompileShader(fragmentSrc) ==
    IF ~glVertexShaderCompiles
    THEN [success |-> FALSE, errorLog |-> VertexErrorLog]
    ELSE IF \E i \in DOMAIN fragmentSrc : fragmentSrc[i].k = "bad"
    THEN [success |-> FALSE, errorLog |-> CompileErrorLog]
    ELSE IF \E i \in DOMAIN fragmentSrc : fragmentSrc[i].k = "badlink"
    THEN [success |-> FALSE, errorLog |-> LinkErrorLog]
    ELSE [success |-> TRUE, errorLog |-> <<>>]

\* result.success of tryCompileShader
Compiles(fragmentSrc) == tryCompileShader(fragmentSrc).success

getFileModTime(fs, path) == IF Exists(fs, path) THEN fs[path].mtime ELSE 0

\* savedValues: name -> the last descriptor of that name in the collection
SavedNames(collection) == {collection[i].name : i \in DOMAIN collection}

SavedValue(collection, name) ==
    LET idx == {i \in DOMAIN collection : collection[i].name = name}
    IN collection[CHOOSE i \in idx : \A j \in idx : j <= i]

\* RestoreValues, had savedValues kept the first descriptor of each name
RestoreValues_FirstOfName(parsed, previous) ==
    [i \in DOMAIN parsed |->
        LET idx == {j \in DOMAIN previous : previous[j].name = parsed[i].name}
        IN IF idx # {} /\ previous[CHOOSE j \in idx : \A k \in idx : j <= k].tag = parsed[i].tag
           THEN [parsed[i] EXCEPT !.value =
                    previous[CHOOSE j \in idx : \A k \in idx : j <= k].value]
           ELSE parsed[i]]

\* the restore loop of loadShader
RestoreValues(parsed, previous) ==
    [i \in DOMAIN parsed |->
        IF /\ parsed[i].name \in SavedNames(previous)
           /\ SavedValue(previous, parsed[i].name).tag = parsed[i].tag
        THEN [parsed[i] EXCEPT !.value = SavedValue(previous, parsed[i].name).value]
        ELSE parsed[i]]

\* DependencyModTimes, had the table not been rebuilt for the new list
DependencyModTimes_Stale(fs, deps) ==
    [d \in {deps[i] : i \in DOMAIN deps} |->
        IF d \in DOMAIN dependencyModTimes_ THEN dependencyModTimes_[d] ELSE 0]

\* the dependency timestamps a successful load records
DependencyModTimes(fs, deps) ==
    [d \in {deps[i] : i \in DOMAIN deps} |-> getFileModTime(fs, d)]

\* what no call of the coordinator touches: the driver, and the variables
\* of the direct calls
untouchedVars == <<glVertexShaderCompiles, call, input, output>>

\* loadFailed, had the collection been reset before the failure was known
loadFailed_ClearsUniforms(op, error) ==
    /\ lastError_' = error
    /\ last' = Call(op, FALSE, TRUE)
    /\ uniforms_' = <<>>
    /\ UNCHANGED <<glPrograms, shaderProgram_, shaderSource_, lastModTime_,
                   dependencyModTimes_>>

\* loadFailed, had the old program been deleted before the new one compiled
loadFailed_Unbinds(op, error) ==
    /\ lastError_' = error
    /\ last' = Call(op, FALSE, TRUE)
    /\ glPrograms' = <<>>
    /\ shaderProgram_' = 0
    /\ UNCHANGED <<shaderSource_, lastModTime_, dependencyModTimes_, uniforms_>>

\* loadFailed, had a failure invalidated the stored timestamps
loadFailed_ForgetsSnapshot(op, error) ==
    /\ lastError_' = error
    /\ last' = Call(op, FALSE, TRUE)
    /\ lastModTime_' = 0
    /\ dependencyModTimes_' = <<>>
    /\ UNCHANGED <<glPrograms, shaderProgram_, shaderSource_, uniforms_>>

\* loadFailed, had the message not been stored after the clear of the entry
loadFailed_NoMessage(op, error) ==
    /\ lastError_' = <<>>
    /\ last' = Call(op, FALSE, TRUE)
    /\ UNCHANGED <<glPrograms, shaderProgram_, shaderSource_, lastModTime_,
                   dependencyModTimes_, uniforms_>>

\* a failing return of loadShader: the error is set, nothing else is touched
loadFailed(op, error) ==
    /\ lastError_' = error
    /\ last' = Call(op, FALSE, TRUE)
    /\ UNCHANGED <<glPrograms, shaderProgram_, shaderSource_, lastModTime_,
                   dependencyModTimes_, uniforms_>>

\* the body of loadShader, run on behalf of the call named op
LoadShaderBody(fragmentPath, op) ==
    LET preprocessResult == process(files, fragmentPath) IN
    /\ shaderPath_' = fragmentPath
    /\ files' = files
    /\ autoReload_' = autoReload_
    /\ UNCHANGED untouchedVars
    /\ IF ~Exists(files, fragmentPath)
       THEN /\ loadFailed(op, <<"File not found: ", fragmentPath>>)
            /\ UNCHANGED shaderDependencies_
       ELSE IF ~preprocessResult.success
       THEN /\ loadFailed(op, <<"Preprocessing failed: ">> \o preprocessResult.errorMessage)
            /\ UNCHANGED shaderDependencies_
       ELSE IF ~tryCompileShader(preprocessResult.source).success
       THEN /\ shaderDependencies_' = preprocessResult.dependencies
            /\ loadFailed(op, tryCompileShader(preprocessResult.source).errorLog)
       ELSE \E programId \in ProgramNames \ DOMAIN glPrograms,
               parsed \in ParsedSources[preprocessResult.source] :
            /\ shaderDependencies_' = preprocessResult.dependencies
            /\ glPrograms' = [p \in {programId} |-> preprocessResult.source]
            /\ shaderProgram_' = programId
            /\ shaderSource_' = preprocessResult.source
            /\ lastModTime_' = getFileModTime(files, fragmentPath)
            /\ dependencyModTimes_' =
                   DependencyModTimes(files, preprocessResult.dependencies)
            /\ uniforms_' =
                   updateLocations(
                       RestoreValues(parsed, uniforms_),
                       preprocessResult.source)
            /\ lastError_' = <<>>
            /\ last' = Call(op, TRUE, TRUE)

\* loadShader, had the path been recorded only once the file was found
loadShader_ChecksFirst(fragmentPath) ==
    IF ~Exists(files, fragmentPath)
    THEN /\ loadFailed("loadShader", <<"File not found: ", fragmentPath>>)
         /\ UNCHANGED untouchedVars
         /\ UNCHANGED <<files, shaderPath_, autoReload_, shaderDependencies_>>
    ELSE LoadShaderBody(fragmentPath, "loadShader")

loadShader(fragmentPath) == LoadShaderBody(fragmentPath, "loadShader")

\* some dependency of the list has a recorded timestamp that no longer
\* matches the disk
DependencyModified ==
    \E i \in DOMAIN shaderDependencies_ :
        /\ shaderDependencies_[i] \in DOMAIN dependencyModTimes_
        /\ getFileModTime(files, shaderDependencies_[i])
               # dependencyModTimes_[shaderDependencies_[i]]

checkAndReload ==
    IF ~autoReload_ \/ shaderPath_ = ""
    THEN /\ last' = Call("checkAndReload", FALSE, FALSE)
         /\ UNCHANGED untouchedVars
         /\ UNCHANGED <<files, glPrograms, shaderProgram_, shaderPath_,
                        shaderSource_, lastModTime_, lastError_, autoReload_,
                        shaderDependencies_, dependencyModTimes_, uniforms_>>
    ELSE IF getFileModTime(files, shaderPath_) # lastModTime_
    THEN LoadShaderBody(shaderPath_, "checkAndReload")
    ELSE IF DependencyModified
    THEN LoadShaderBody(shaderPath_, "checkAndReload")
    ELSE /\ last' = Call("checkAndReload", FALSE, FALSE)
         /\ UNCHANGED untouchedVars
         /\ UNCHANGED <<files, glPrograms, shaderProgram_, shaderPath_,
                        shaderSource_, lastModTime_, lastError_, autoReload_,
                        shaderDependencies_, dependencyModTimes_, uniforms_>>

\* forceReload, had the empty path not been checked
forceReload_NoGuard == LoadShaderBody(shaderPath_, "forceReload")

forceReload ==
    IF shaderPath_ = ""
    THEN /\ lastError_' = <<"No shader path set">>
         /\ last' = Call("forceReload", FALSE, FALSE)
         /\ UNCHANGED untouchedVars
         /\ UNCHANGED <<files, glPrograms, shaderProgram_, shaderPath_,
                        shaderSource_, lastModTime_, autoReload_,
                        shaderDependencies_, dependencyModTimes_, uniforms_>>
    ELSE LoadShaderBody(shaderPath_, "forceReload")

resetUniforms ==
    /\ uniforms_' = resetToDefaults(uniforms_)
    /\ last' = Call("none", FALSE, FALSE)
    /\ UNCHANGED untouchedVars
    /\ UNCHANGED <<files, glPrograms, shaderProgram_, shaderPath_, shaderSource_,
                   lastModTime_, lastError_, autoReload_, shaderDependencies_,
                   dependencyModTimes_>>

setAutoReload(enabled) ==
    /\ autoReload_' = enabled
    /\ last' = Call("none", FALSE, FALSE)
    /\ UNCHANGED untouchedVars
    /\ UNCHANGED <<files, glPrograms, shaderProgram_, shaderPath_, shaderSource_,
                   lastModTime_, lastError_, shaderDependencies_,
                   dependencyModTimes_, uniforms_>>

\* what a slider set to the number v stores: a float or an int
SliderValue(uniform, v) == IF uniform.tag = "FloatUniform" THEN Rat(v, 1) ELSE v

\* the editor panel writes a control's value through getUniforms()
EditUniform(i, v) ==
    /\ i \in DOMAIN uniforms_
    /\ uniforms_[i].tag \in {"FloatUniform", "IntUniform"}
    /\ uniforms_[i].value # SliderValue(uniforms_[i], v)
    /\ uniforms_' = [uniforms_ EXCEPT ![i].value = SliderValue(uniforms_[i], v)]
    /\ last' = Call("none", FALSE, FALSE)
    /\ UNCHANGED untouchedVars
    /\ UNCHANGED <<files, glPrograms, shaderProgram_, shaderPath_, shaderSource_,
                   lastModTime_, lastError_, autoReload_, shaderDependencies_,
                   dependencyModTimes_>>

\* the environment saves a file: new content, new timestamp, or both
WriteFile(f, content, mtime) ==
    /\ files[f] # [mtime |-> mtime, content |-> content]
    /\ files' = [files EXCEPT ![f] = [mtime |-> mtime, content |-> content]]
    /\ last' = Call("none", FALSE, FALSE)
    /\ UNCHANGED untouchedVars
    /\ UNCHANGED <<glPrograms, shaderProgram_, shaderPath_, shaderSource_,
                   lastModTime_, lastError_, autoReload_, shaderDependencies_,
                   dependencyModTimes_, uniforms_>>

Init ==
    /\ files \in Disks
    /\ glVertexShaderCompiles \in BOOLEAN
    /\ glPrograms = <<>>
    /\ shaderProgram_ = 0
    /\ shaderPath_ = ""
    /\ shaderSource_ = <<>>
    /\ lastModTime_ = 0
    /\ lastError_ = <<>>
    /\ autoReload_ = TRUE
    /\ shaderDependencies_ = <<>>
    /\ dependencyModTimes_ = <<>>
    /\ uniforms_ = <<>>
    /\ last = Call("none", FALSE, FALSE)
    /\ call = "none"
    /\ input = <<>>
    /\ output = <<>>

Next ==
    \/ \E p \in Paths : loadShader(p)
    \/ checkAndReload
    \/ forceReload
    \/ resetUniforms
    \/ \E b \in BOOLEAN : setAutoReload(b)
    \/ \E i \in 1..2, v \in 0..MaxValue : EditUniform(i, v)
    \/ \E f \in Files : \E c \in Contents(f), t \in 1..MaxTime : WriteFile(f, c, t)

Spec == Init /\ [][Next]_vars

\* ------------------------------------------------------------------------
\* Direct calls of the restore loop of ShaderLayer::loadShader
\* ------------------------------------------------------------------------
\* the longest collection handed to the loop
MaxDescriptors == 2

RestoreNames == {uSpeed, <<"u", "G", "a", "i", "n">>}

\* the declared types: a float slider and an int slider
RestoreTypes == {"float", "int"}

\* the default of every descriptor here, and the values a user has set
RestoreDefault == 2

EditedValues == {0, 1}

\* the descriptors UniformParser::parse has just built from
\* // @slider(default=2, max=3): value = default
ParsedDescriptors ==
    {uniform[1] : uniform \in UNION
        {UniformParser_parseSlider(t, n,
             AnnotationParser_parseString(
                 <<"d", "e", "f", "a", "u", "l", "t", "=">> \o DigitsOf(RestoreDefault)
                     \o <<",", " ", "m", "a", "x", "=", "3">>)) :
            n \in RestoreNames, t \in RestoreTypes}}

\* the descriptors of the collection before the reload: any value
PreviousDescriptors ==
    {[d EXCEPT !.value = SliderValue(d, v)] : d \in ParsedDescriptors, v \in EditedValues}

RestoreInit ==
    /\ NoCoordinator
    /\ call = "none"
    /\ input \in [parsed : UNION {[1..n -> ParsedDescriptors] : n \in 0..MaxDescriptors},
                  previous : UNION {[1..n -> PreviousDescriptors] : n \in 0..MaxDescriptors}]
    /\ output = <<>>

\* savedValues is filled from input.previous, then input.parsed is restored
Restore ==
    /\ call = "none"
    /\ call' = "restore"
    /\ output' = RestoreValues(input.parsed, input.previous)
    /\ UNCHANGED input
    /\ UNCHANGED coordinatorVars

RestoreNext == Restore

RestoreSpec == RestoreInit /\ [][RestoreNext]_vars

\* ------------------------------------------------------------------------
\* Properties
\* ------------------------------------------------------------------------
\* what the files on disk make of a load of path p
LoadFails(p) ==
    \/ ~Exists(files, p)
    \/ ~process(files, p).success
    \/ ~Compiles(process(files, p).source)

\* this step ran the body of loadShader (directly, or from a poll or a
\* forced reload) and the files made it fail / succeed
FailedLoadStep == last'.load /\ LoadFails(shaderPath_')

GoodLoadStep == last'.load /\ ~LoadFails(shaderPath_')

Edited(collection) ==
    \E i \in DOMAIN collection : collection[i].value # collection[i].defaultValue

\* C1: every loadShader call that fails (file missing, preprocessing
\* failure, compiler failure) leaves the active program handle and the
\* uniform collection, user-edited values included, as they were, and
\* returns failure.
C1_FailedLoadKeepsProgramAndUniforms ==
    [][FailedLoadStep =>
         /\ shaderProgram_' = shaderProgram_
         /\ uniforms_' = uniforms_
         /\ last'.ret = FALSE]_vars

\* a compile failure has just been reported while a program is active and
\* a user-edited value is in the collection
C1_Witness ==
    /\ last.load /\ ~last.ret
    /\ lastError_ = CompileErrorLog
    /\ shaderProgram_ # 0
    /\ Edited(uniforms_)

\* C2: the active program is none or the program linked by the most recent
\* successful load: a successful load binds a live program linked from the
\* source it flattened, every other step leaves the handle and the program
\* object alone, and a valid shader never becomes invalid.
C2_LastKnownGoodProgram ==
    [][/\ GoodLoadStep =>
            /\ shaderProgram_' # 0
            /\ shaderProgram_' \in DOMAIN glPrograms'
            /\ glPrograms'[shaderProgram_'] = process(files, shaderPath_').source
       /\ ~GoodLoadStep =>
            /\ shaderProgram_' = shaderProgram_
            /\ glPrograms' = glPrograms
       /\ shaderProgram_ # 0 => shaderProgram_' # 0]_vars

\* a load of a path that is not there has failed after an earlier success:
\* the earlier program is still bound and alive
C2_Witness ==
    /\ shaderPath_ = Missing
    /\ lastError_ # <<>>
    /\ shaderProgram_ \in DOMAIN glPrograms
    /\ glPrograms[shaderProgram_] = shaderSource_

\* the descriptors of a collection that carry a name
WithName(collection, name) == {j \in DOMAIN collection : collection[j].name = name}

\* C3 as stated: after a successful load a new descriptor has the value of
\* a previous descriptor of the same name and variant if there was one, and
\* its own default otherwise.
C3_AsStated ==
    [][GoodLoadStep =>
         \A i \in DOMAIN uniforms_' :
            LET d == uniforms_'[i]
                same == {j \in WithName(uniforms_, d.name) : uniforms_[j].tag = d.tag}
            IN IF same # {}
               THEN \E j \in same : d.value = uniforms_[j].value
               ELSE d.value = d.defaultValue]_vars

\* C3 amended: after a successful load a new descriptor has the value of the
\* LAST previous descriptor of its name if that one has the identical
\* variant tag (whatever became of min, max and default), and its own new
\* default otherwise (name absent before, or that last descriptor is of
\* another variant).
C3_ValuePreservedFromLastOfName ==
    [][GoodLoadStep =>
         \A i \in DOMAIN uniforms_' :
            LET d == uniforms_'[i]
                named == WithName(uniforms_, d.name)
            IN IF named # {}
                  /\ uniforms_[CHOOSE j \in named : \A k \in named : k <= j].tag = d.tag
               THEN d.value =
                      uniforms_[CHOOSE j \in named : \A k \in named : k <= j].value
               ELSE d.value = d.defaultValue]_vars

\* a successful load has just kept an edited value in a descriptor whose
\* default is another one
C3_Witness ==
    /\ last.load /\ last.ret
    /\ \E i \in DOMAIN uniforms_ :
          /\ uniforms_[i].tag = "FloatUniform"
          /\ uniforms_[i].maxValue = Rat(3, 1)
          /\ uniforms_[i].defaultValue = Rat(2, 1)
          /\ uniforms_[i].value = Rat(0, 1)

\* the names and variants of a collection, in order
Schema(collection) ==
    [i \in DOMAIN collection |-> <<collection[i].name, collection[i].tag>>]

\* the files named by the BEGIN INCLUDE markers of a flattened source
IncludedFiles(src) == {src[i].f : i \in {j \in DOMAIN src : src[j].k = "begin"}}

\* program, collection and snapshot all stem from the flattened source src
TripleOf(src, program, programs, collection, depTimes) ==
    /\ program \in DOMAIN programs
    /\ programs[program] = src
    /\ \E parsed \in ParsedSources[src] : Schema(collection) = Schema(parsed)
    /\ DOMAIN depTimes = IncludedFiles(src)

\* C4: program, uniform collection (names and variants) and dependency
\* snapshot are swapped as a unit: a successful load replaces all three by
\* what that one call produced, any other step changes none of them, so
\* between operations the three always stem from the same load.
C4_TripleSwappedTogether ==
    [][/\ GoodLoadStep =>
            /\ TripleOf(process(files, shaderPath_').source, shaderProgram_',
                        glPrograms', uniforms_', dependencyModTimes_')
            /\ lastModTime_' = getFileModTime(files, shaderPath_')
            /\ \A d \in DOMAIN dependencyModTimes_' :
                   dependencyModTimes_'[d] = getFileModTime(files, d)
       /\ ~GoodLoadStep =>
            /\ shaderProgram_' = shaderProgram_
            /\ glPrograms' = glPrograms
            /\ Schema(uniforms_') = Schema(uniforms_)
            /\ lastModTime_' = lastModTime_
            /\ dependencyModTimes_' = dependencyModTimes_
       /\ shaderProgram_' # 0 =>
            TripleOf(shaderSource_', shaderProgram_', glPrograms', uniforms_',
                     dependencyModTimes_')
       /\ shaderProgram_' = 0 =>
            /\ uniforms_' = <<>>
            /\ dependencyModTimes_' = <<>>
            /\ lastModTime_' = 0]_vars

\* a reload that a poll triggered has just swapped in a triple with an
\* include: program, collection and snapshot all stem from its source
C4_Witness ==
    /\ last = Call("checkAndReload", TRUE, TRUE)
    /\ TripleOf(shaderSource_, shaderProgram_, glPrograms, uniforms_,
                dependencyModTimes_)
    /\ Len(uniforms_) = 2
    /\ dependencyModTimes_ # <<>>

\* the timestamp on disk of the main file, or of a file of the snapshot,
\* is not the stored one
MainStale == getFileModTime(files, shaderPath_) # lastModTime_

SnapshotStale ==
    \E d \in DOMAIN dependencyModTimes_ :
        getFileModTime(files, d) # dependencyModTimes_[d]

PollStep == last'.op = "checkAndReload"

\* C5: a poll with auto-reload enabled that finds the timestamp of the main
\* file, or of any file with an entry in the snapshot, different from the
\* stored one calls loadShader during that poll.
C5_StalePollReloads ==
    [][(PollStep /\ autoReload_ /\ (MainStale \/ SnapshotStale)) => last'.load]_vars

\* what a poll must leave alone when it has nothing to do
Coordinator ==
    <<glPrograms, shaderProgram_, shaderPath_, shaderSource_, lastModTime_,
      lastError_, autoReload_, shaderDependencies_, dependencyModTimes_,
      uniforms_>>

\* the most recent load attempt succeeded
LoadedOk == shaderProgram_ # 0 /\ lastError_ = <<>>

\* every tracked file has the timestamp it had at the load
Unmodified ==
    /\ ~MainStale
    /\ ~SnapshotStale
    /\ \A i \in DOMAIN shaderDependencies_ :
          shaderDependencies_[i] \in DOMAIN dependencyModTimes_

\* C6: reload idempotence: a successful load leaves every tracked file
\* unmodified with respect to what it stored, and as long as that stays so
\* a poll returns false and changes nothing of the coordinator, however
\* often it is repeated.
C6_PollOfUnchangedFilesIsNoOp ==
    [][/\ GoodLoadStep => (LoadedOk' /\ Unmodified')
       /\ (PollStep /\ LoadedOk /\ Unmodified) =>
            /\ Coordinator' = Coordinator
            /\ last' = Call("checkAndReload", FALSE, FALSE)
            /\ LoadedOk' /\ Unmodified']_vars

\* a poll has just found nothing to do on a shader that has an include and
\* an edited value
C6_Witness ==
    /\ last = Call("checkAndReload", FALSE, FALSE)
    /\ autoReload_
    /\ LoadedOk /\ Unmodified
    /\ shaderDependencies_ # <<>>
    /\ Edited(uniforms_)

\* C7: busy retry: the poll that follows a poll whose reload failed to
\* compile (no file touched in between) calls loadShader again and fails
\* again.
C7_FailedReloadIsRetried ==
    [][(/\ last = Call("checkAndReload", FALSE, TRUE)
        /\ lastError_ = CompileErrorLog
        /\ PollStep) =>
          (last'.load /\ ~last'.ret)]_vars

\* C8: the snapshot (the stored timestamp of the main file and of each
\* dependency) changes only in a successful load, which stores the current
\* timestamp of the main file and of every file of the new dependency
\* list; a failed load, like every other step, leaves it as it was.
C8_SnapshotOnlyOnSuccess ==
    [][IF GoodLoadStep
       THEN /\ lastModTime_' = files[shaderPath_'].mtime
            /\ DOMAIN dependencyModTimes_' =
                 {shaderDependencies_'[i] : i \in DOMAIN shaderDependencies_'}
            /\ \A d \in DOMAIN dependencyModTimes_' :
                 dependencyModTimes_'[d] = files[d].mtime
       ELSE /\ lastModTime_' = lastModTime_
            /\ dependencyModTimes_' = dependencyModTimes_]_vars

\* a load has just failed while the disk no longer has the timestamps of
\* the snapshot, which still holds a dependency
C8_Witness ==
    /\ last.load /\ ~last.ret
    /\ dependencyModTimes_ # <<>>
    /\ MainStale /\ SnapshotStale

\* C9: a loadShader call that fails at any step leaves the dependency list
\* of the last successful load in place.
C9_DependenciesOnlyOnSuccess ==
    [][FailedLoadStep => shaderDependencies_' = shaderDependencies_]_vars

\* loadShader has never been called
Unloaded == shaderPath_ = ""

\* C10: in the Unloaded state forceReload returns failure with an error
\* message and checkAndReload returns false, neither calls loadShader, and
\* after either the coordinator is still Unloaded with no program and an
\* empty collection; the only step that leaves Unloaded is a loadShader
\* call.
C10_UnloadedUntilLoadShader ==
    [][Unloaded =>
         /\ forceReload =>
              /\ last' = Call("forceReload", FALSE, FALSE)
              /\ lastError_' # <<>>
         /\ checkAndReload => last' = Call("checkAndReload", FALSE, FALSE)
         /\ last'.op # "loadShader" =>
              /\ Unloaded'
              /\ shaderProgram_' = 0
              /\ uniforms_' = <<>>
         /\ ~Unloaded' => last' \in {Call("loadShader", r, TRUE) : r \in BOOLEAN}]_vars

\* a forced reload and then a poll have run on the Unloaded coordinator
C10_Witness ==
    /\ Unloaded
    /\ lastError_ = <<"No shader path set">>
    /\ last = Call("checkAndReload", FALSE, FALSE)

\* ------------------------------------------------------------------------
\* Properties of ShaderPreprocessor::process
\* ------------------------------------------------------------------------
\* the #include lines of a text
IncludeLines(text) == {i \in DOMAIN text : text[i].k = "inc"}

\* the files of directory fs that file f names in its #include directives
Includes(fs, f) ==
    {fs[f].content[i].f : i \in IncludeLines(fs[f].content)} \cap DOMAIN fs

\* the files reached from the set S of files in at most n include steps
RECURSIVE ReachedIn(_, _, _)
ReachedIn(fs, S, n) ==
    IF n = 0 THEN S
    ELSE ReachedIn(fs, S \cup UNION {Includes(fs, f) : f \in S}, n - 1)

\* the files transitively included from file f
Included(fs, f) ==
    ReachedIn(fs, Includes(fs, f), Cardinality(DOMAIN fs))

\* the main file and everything it transitively includes
Expanded(fs, main) == {main} \cup Included(fs, main)

\* an include cycle can be reached from the main file
Cyclic(fs, main) == \E f \in Expanded(fs, main) : f \in Included(fs, f)

\* every directive met from the main file has a path, and the path is that
\* of a file of the directory
Resolvable(fs, main) ==
    \A f \in Expanded(fs, main) : \A i \in DOMAIN fs[f].content :
        LET line == fs[f].content[i]
        IN /\ line.k # "badinc"
           /\ line.k = "inc" => line.f \in DOMAIN fs

\* no included file is an empty file
NonEmpty(fs, main) == \A f \in Included(fs, main) : fs[f].content # <<>>

\* the number of include paths that lead from file `from` to file `to`
\* (of an acyclic directory), summed over the lines i.. of `from`
RECURSIVE PathCount(_, _, _, _)
PathCount(fs, from, to, i) ==
    IF i > Len(fs[from].content) THEN 0
    ELSE LET line == fs[from].content[i]
         IN (IF line.k = "inc" /\ line.f \in DOMAIN fs
             THEN (IF line.f = to THEN 1 ELSE 0) + PathCount(fs, line.f, to, 1)
             ELSE 0)
            + PathCount(fs, from, to, i + 1)

Occurrences(seq, x) == Cardinality({i \in DOMAIN seq : seq[i] = x})

\* process has been called on a main file that exists
Processed == call = "process" /\ Exists(input.fs, input.mainFilePath)

\* C11: for every non-cyclic include graph whose files all exist (a file
\* included from two files, or twice from one file, included), process
\* succeeds and the dependency list holds every transitively included file.
C11_AcyclicGraphSucceeds ==
    (/\ Processed
     /\ ~Cyclic(input.fs, input.mainFilePath)
     /\ Resolvable(input.fs, input.mainFilePath)
     /\ NonEmpty(input.fs, input.mainFilePath))
    => /\ output.success
       /\ \A f \in Included(input.fs, input.mainFilePath) :
              Occurrences(output.dependencies, f) >= 1

\* the directory with the main file cut after its first n lines
CutMain(fs, main, n) ==
    [fs EXCEPT ![main].content = SubSeq(fs[main].content, 1, n)]

\* the error of the first line of the main file whose expansion fails
FirstError(fs, main) ==
    LET failing == {n \in 1..Len(fs[main].content) :
                       ~process(CutMain(fs, main, n), main).success}
        first == CHOOSE n \in failing : \A m \in failing : n <= m
    IN process(CutMain(fs, main, first), main).errorMessage

\* C12 as stated: for every include graph with a cycle reachable from the
\* main file (A includes B includes A, a file including itself) process
\* returns with success = false and the circular-include message.
C12_AsStated ==
    (Processed /\ Cyclic(input.fs, input.mainFilePath))
    => /\ ~output.success
       /\ output.errorMessage[1] = "Circular include detected: "

\* the messages of the errors of an include other than the circular one
OtherIncludeErrors ==
    {"Include file not found: ", "Invalid #include syntax at line ",
     "Failed to read include file: "}

\* C12, amended: for every include graph with a cycle reachable from the
\* main file process returns with success = false and the first error
\* met, which is the circular-include message or the message of a missing,
\* unreadable or malformed include; it is the circular-include message
\* when every directive met has a path that resolves and no included file
\* is empty.
C12_CycleFailsWithFirstError ==
    (Processed /\ Cyclic(input.fs, input.mainFilePath))
    => /\ ~output.success
       /\ output.errorMessage = FirstError(input.fs, input.mainFilePath)
       /\ (/\ Resolvable(input.fs, input.mainFilePath)
           /\ NonEmpty(input.fs, input.mainFilePath))
          => output.errorMessage[1] = "Circular include detected: "
       /\ output.errorMessage[1]
              \in {"Circular include detected: "} \cup OtherIncludeErrors

\* a.frag includes b.glsl, b.glsl includes a.frag: the call has returned the
\* circular-include error raised in the third expansion
C12_Witness ==
    /\ Processed
    /\ input.mainFilePath = "a.frag"
    /\ input.fs["a.frag"].content = <<Inc("b.glsl")>>
    /\ input.fs["b.glsl"].content = <<Inc("a.frag")>>
    /\ ~output.success
    /\ output.errorMessage = <<"Circular include detected: ", "b.glsl", "a.frag", "1">>

\* C13: when a file is reached over two distinct non-cyclic include paths
\* (no file naming a file twice) it is expanded once per path in the flattened
\* source and listed once per path in the dependency list.
C13_DiamondExpandedPerPath ==
    (/\ Processed
     /\ ~Cyclic(input.fs, input.mainFilePath)
     /\ Resolvable(input.fs, input.mainFilePath)
     /\ NonEmpty(input.fs, input.mainFilePath))
    => \A f \in Included(input.fs, input.mainFilePath) :
          (/\ PathCount(input.fs, input.mainFilePath, f, 1) >= 2
           /\ \A g, h \in Expanded(input.fs, input.mainFilePath) :
                  Occurrences(input.fs[g].content, Inc(h)) <= 1)
          => /\ output.success
             /\ Occurrences(output.dependencies, f)
                    = PathCount(input.fs, input.mainFilePath, f, 1)
             /\ Occurrences(output.source, BeginInclude(f))
                    = PathCount(input.fs, input.mainFilePath, f, 1)

\* file f, or a file it transitively includes, holds a directive without a
\* path or with the path of no file
Defective(fs, main) ==
    \/ ~Exists(fs, main)
    \/ ~Resolvable(fs, main)
    \/ Cyclic(fs, main)

\* C14: an error at any depth of the expansion (missing include file,
\* directive without a path, circular include) makes process return
\* success = false with the first error met, an empty source and an empty
\* dependency list.
C14_ErrorDiscardsEverything ==
    call = "process"
    => /\ Defective(input.fs, input.mainFilePath) => ~output.success
       /\ ~output.success =>
            /\ output.source = <<>>
            /\ output.dependencies = <<>>
            /\ output.errorMessage # <<>>
            /\ Exists(input.fs, input.mainFilePath) =>
                   output.errorMessage
                       = FirstError(input.fs, input.mainFilePath)

\* the expansion met the missing file two levels down, after b.glsl and
\* c.glsl had been listed, and a directive without a path follows
C14_Witness ==
    /\ Processed
    /\ input.fs["a.frag"].content = <<Inc("b.glsl"), BadInc>>
    /\ input.fs["b.glsl"].content = <<Inc("c.glsl"), Text>>
    /\ input.fs["c.glsl"].content = <<Text, Inc(Missing)>>
    /\ ~output.success
    /\ output.errorMessage = <<"Include file not found: ", Missing, "c.glsl", "2">>
    /\ output.dependencies = <<>>
\* ------------------------------------------------------------------------
\* Properties of AnnotationLexer::tokenize
\* ------------------------------------------------------------------------
\* the character at 0-based position p of the input starts no token kind
\* and stands outside every string: no quote precedes it
Unrecognized(str, p) ==
    /\ At(str, p) \in {"$", "\\"}
    /\ \A q \in 0..(p - 1) : At(str, q) # "'"

\* C15: tokenize returns, for every input, a token list that ends with
\* EndOfInput and holds no other EndOfInput; a character that starts no
\* token becomes an Invalid token of that one character, and the next
\* character is tokenized as usual.
C15_TokenizeTotal ==
    call = "tokenize"
    => /\ Len(output) >= 1
       /\ output[Len(output)] = Token("EndOfInput", <<>>, Len(input))
       /\ \A i \in 1..(Len(output) - 1) : output[i].type # "EndOfInput"
       /\ \A i \in DOMAIN output :
            output[i].type = "Invalid"
            => /\ output[i].value = <<At(input, output[i].position)>>
               /\ ~isWhitespace(output[i].value[1])
               /\ SingleCharacter(output[i].value[1]) = ""
               /\ ~isAlphaNumeric(output[i].value[1])
               /\ output[i + 1].position > output[i].position
               /\ (/\ output[i].position + 1 < Len(input)
                   /\ ~isWhitespace(At(input, output[i].position + 1)))
                  => output[i + 1].position = output[i].position + 1
       /\ \A p \in 0..(Len(input) - 1) :
            Unrecognized(input, p)
            => \E i \in DOMAIN output :
                  output[i] = Token("Invalid", <<At(input, p)>>, p)

\* "$a$" has been tokenized: Invalid, Identifier, Invalid, EndOfInput
C15_Witness ==
    /\ call = "tokenize"
    /\ input = <<"$", "a", "$">>
    /\ output = << Token("Invalid", <<"$">>, 0),
                   Token("Identifier", <<"a">>, 1),
                   Token("Invalid", <<"$">>, 2),
                   Token("EndOfInput", <<>>, 3) >>
\* ------------------------------------------------------------------------
\* Properties of AnnotationParser::parse
\* ------------------------------------------------------------------------
\* the parameters of the list handed to parse, and the separators after them
NumParams == (Len(input) + 1) \div 2

ParamAt(k) == input[2 * k - 1]

SepAfter(k) == input[2 * k]

\* what a parameter of one number stands for
ScalarKey(text) == IF text = ScalarMin THEN <<"m", "i", "n">> ELSE <<"m", "a", "x">>

ScalarValue(text) == IF text = ScalarMin THEN Number(<<0, 1>>) ELSE Number(<<1, 1>>)

\* every parameter before the k-th is name=number and has a comma after it
PlainBefore(k) ==
    \A j \in 1..(k - 1) :
        ParamAt(j) \in {ScalarMin, ScalarMax} /\ SepAfter(j) = CommaSep

\* the map of the name=number parameters among the first n of the list
RECURSIVE ScalarsOf(_)
ScalarsOf(n) ==
    IF n = 0 THEN EmptyMap
    ELSE IF ParamAt(n) \in {ScalarMin, ScalarMax}
    THEN Put(ScalarsOf(n - 1), ScalarKey(ParamAt(n)), ScalarValue(ParamAt(n)))
    ELSE ScalarsOf(n - 1)

\* the call left parseParams by an exception
Raised == parseParams(tokenize(Flatten(input))).thrown

\* C16: when a parameter name is not followed by '=' ("a b", "min=0, max")
\* parse returns the empty map: the parameters parsed before the malformed
\* one are not returned.
C16_MissingEqualsGivesEmptyMap ==
    call = "parse"
    => \A k \in 1..NumParams :
          (/\ ParamAt(k) \in BareNames
           /\ PlainBefore(k)
           /\ k < NumParams => ~(SepAfter(k) = BlankSep /\ ParamAt(k + 1) = Nameless))
          => Raised /\ output = EmptyMap

\* "min=0, max" has been parsed: min was read, max has no '=', the map
\* returned is empty
C16_Witness ==
    /\ call = "parse"
    /\ input = <<ScalarMin, CommaSep, <<"m", "a", "x">> >>
    /\ Raised
    /\ parseParams(tokenize(Flatten(input))).params # EmptyMap
    /\ output = EmptyMap

\* C17 as stated: when a token that is no identifier stands where a
\* parameter name is required after other parameters ("min=0, =3") parse
\* raises the parse error and so returns the empty map.
C17_AsStated ==
    call = "parse"
    => \A k \in 1..NumParams :
          (ParamAt(k) = Nameless /\ k >= 2 /\ PlainBefore(k) /\ k = NumParams)
          => output = EmptyMap

\* C17, amended: such a token raises no error; it is skipped and parsing
\* goes on with the next token, so the parameters before it, and the
\* name=number parameters after it, are returned.
C17_UnexpectedTokenIsSkipped ==
    call = "parse"
    => \A k \in 1..NumParams :
          (/\ ParamAt(k) = Nameless
           /\ PlainBefore(k)
           /\ \A j \in (k + 1)..NumParams : ParamAt(j) \in {ScalarMin, ScalarMax}
           /\ \A j \in (k + 1)..(NumParams - 1) : SepAfter(j) = CommaSep)
          => ~Raised /\ output = ScalarsOf(NumParams)

\* "min=0, =3" has been parsed: the map returned holds min
C17_Witness ==
    /\ call = "parse"
    /\ input = <<ScalarMin, CommaSep, Nameless>>
    /\ ~Raised
    /\ DOMAIN output = {<<"m", "i", "n">>}
    /\ output[<<"m", "i", "n">>] = Number(<<0, 1>>)

\* the numbers of the two array parameters
ArrayValue(text) ==
    IF text = Array3 THEN <<<<1, 1>>, <<1, 2>>, <<1, 5>>>> ELSE <<<<1, 1>>, <<1, 2>>>>

\* the map holds the numeric array xs under key
HoldsNumbers(map, key, xs) ==
    /\ key \in DOMAIN map
    /\ map[key].kind = "vector<double>"
    /\ map[key].v = xs

\* C18: every parameter key=n1,n2,...,nk of bare numbers is mapped to the
\* numeric array [n1,...,nk] in order, whatever follows the parameter.
C18_BareNumbersAreAnArray ==
    call = "parse"
    => \A k \in 1..NumParams :
          (ParamAt(k) \in {Array3, Array2} /\ PlainBefore(k))
          => /\ ~Raised
             /\ HoldsNumbers(output, <<"d", "e", "f", "a", "u", "l", "t">>,
                             ArrayValue(ParamAt(k)))

\* C19: when a further parameter follows an array of bare numbers
\* ("default=1.0,0.5,0.2, min=0") parse returns both: the first key with
\* exactly its numbers, and the following name=value pair as its own entry.
C19_ParameterAfterArray ==
    call = "parse"
    => \A k \in 1..(NumParams - 1) :
          (/\ ParamAt(k) \in {Array3, Array2}
           /\ PlainBefore(k)
           /\ SepAfter(k) = CommaSep
           /\ ParamAt(k + 1) \in {ScalarMin, ScalarMax}
           /\ k + 1 = NumParams)
          => /\ HoldsNumbers(output, <<"d", "e", "f", "a", "u", "l", "t">>,
                             ArrayValue(ParamAt(k)))
             /\ ScalarKey(ParamAt(k + 1)) \in DOMAIN output
             /\ output[ScalarKey(ParamAt(k + 1))] = ScalarValue(ParamAt(k + 1))

\* red, green, blue and alpha of the colour parameters, as bytes
ColorBytes(text) ==
    IF text = ColorFF8800 THEN <<255, 136, 0, 255>>
    ELSE IF text = Color1a2b3c THEN <<26, 43, 60, 255>>
    ELSE IF text = Color112233 THEN <<17, 34, 51, 255>>
    ELSE IF text = Colorff000080 THEN <<255, 0, 0, 128>>
    ELSE <<128, 255, 0, 0>>

\* C20: a hex colour of exactly 6 hex digits, whatever its first digit,
\* yields [RR/255, GG/255, BB/255, 1.0], one of exactly 8 hex digits
\* [RR/255, GG/255, BB/255, AA/255].
C20_HexColorChannels ==
    call = "parse"
    => \A k \in 1..NumParams :
          (/\ ParamAt(k) \in {ColorFF8800, Color1a2b3c, Color112233,
                               Colorff000080, Color80ff0000}
           /\ PlainBefore(k)
           /\ k = NumParams)
          => HoldsNumbers(output, <<"c">>,
                          [i \in 1..4 |-> Rat(ColorBytes(ParamAt(k))[i], 255)])

\* C21: a hex colour whose digit string has a length other than 6 or 8
\* ("c=#FF88", "c=#12345") gives white for that parameter: red, green and
\* blue all 1, alpha 1.
C21_WrongLengthIsWhite ==
    call = "parse"
    => \A k \in 1..NumParams :
          (/\ ParamAt(k) \in {ColorFF88, Color12345}
           /\ PlainBefore(k)
           /\ k = NumParams)
          => HoldsNumbers(output, <<"c">>,
                          <<Rat(1, 1), Rat(1, 1), Rat(1, 1), Rat(1, 1)>>)

\* the character at index i of a display name starts a word
StartsWord(str, i) == i = 1 \/ str[i - 1] = " "

\* C26: toDisplayName strips a leading u or _ only before an upper-case
\* letter, splits camel case, turns underscores into spaces and capitalizes
\* the first letter of each resulting word: "uMySpeed" gives "My Speed" and
\* "speed_factor" gives "Speed Factor".
C26_DisplayNameCapitalizesWords ==
    call = "toDisplayName"
    => /\ \A i \in DOMAIN output :
              StartsWord(output, i) => toupper(output[i]) = output[i]
       /\ input = NameUMySpeed => output = <<"M", "y", " ", "S", "p", "e", "e", "d">>
       /\ input = NameSpeedFactor
              => output = <<"S", "p", "e", "e", "d", " ", "F", "a", "c", "t", "o", "r">>

\* the checkbox texts that spell true: true, 1, yes in any case
WrittenTrue(text) == text \in {<<"d", "e", "f", "a", "u", "l", "t", "=", "t", "r", "u", "e">>, <<"d", "e", "f", "a", "u", "l", "t", "=", "1">>, <<"d", "e", "f", "a", "u", "l", "t", "=", "Y", "E", "S">>}

\* C22: getBool gives true for a value written true, 1 or yes, false for
\* one written false, 0 or no (in any case) and the supplied default (false
\* in parseCheckbox) for any other or missing value; so @checkbox(default=1)
\* yields a Bool descriptor whose default is true.
C22_CheckboxDefaultAsWritten ==
    (call = "scan" /\ \A i \in DOMAIN input : input[i] \in Checkboxes)
    => /\ Len(output) = Len(input)
       /\ \A i \in DOMAIN input :
             /\ output[i].tag = "BoolUniform"
             /\ output[i].defaultValue = WrittenTrue(input[i].params)

VecDirectives == {"vec2", "vec3", "vec4"}

\* the matches of a source whose directive names the declared type
Matching(matches) ==
    SelectSeq(matches, LAMBDA m : m.uniformType = m.annotationType)

\* C23: a vec2, vec3 or vec4 directive produces a descriptor only when the
\* declared uniform type equals the directive name; @vec2 before a vec3
\* declaration produces none.
C23_VecRequiresMatchingType ==
    (call = "scan" /\ \A i \in DOMAIN input : input[i].annotationType \in VecDirectives)
    => /\ Len(output) = Len(Matching(input))
       /\ \A i \in DOMAIN output : output[i].name = Matching(input)[i].uniformName

\* the directive is known and its builder accepts the declared type
Accepted(m) ==
    \/ m.annotationType = "slider" /\ m.uniformType \in {"float", "int"}
    \/ m.annotationType = "color" /\ m.uniformType \in {"vec3", "vec4"}
    \/ m.annotationType = "checkbox" /\ m.uniformType \in {"int", "bool"}
    \/ m.annotationType \in VecDirectives /\ m.uniformType \in VecDirectives

\* the struct the builder of an accepted match fills
ExpectedTag(m) ==
    IF m.annotationType = "slider"
    THEN (IF m.uniformType = "float" THEN "FloatUniform" ELSE "IntUniform")
    ELSE IF m.annotationType = "color" THEN "ColorUniform"
    ELSE IF m.annotationType = "checkbox" THEN "BoolUniform"
    ELSE IF m.uniformType = "vec2" THEN "Vec2Uniform"
    ELSE IF m.uniformType = "vec3" THEN "Vec3Uniform"
    ELSE "Vec4Uniform"

\* the accepted matches among the first i of the source
AcceptedUpTo(i) == SelectSeq(SubSeq(input, 1, i), Accepted)

\* the parameter list of the match has no parse error
WellFormed(m) == m # SliderParseError

\* C24 as stated: an annotation whose parameter list has a parse error
\* contributes no descriptor; the others contribute theirs.
C24_AsStated ==
    (call = "scan" /\ \E i \in DOMAIN input : ~WellFormed(input[i]))
    => Len(output)
           = Len(SelectSeq(input, LAMBDA m : Accepted(m) /\ WellFormed(m)))

\* C24, amended: an annotation whose parameter list has a parse error still
\* contributes its descriptor, built from the default of every parameter
\* (minimum 0, maximum 1, value 0 and the float nearest to 0.01 as step),
\* and the descriptors of all other annotations are produced as well.
C24_ParseErrorGivesDefaults ==
    call = "scan"
    => \A i \in DOMAIN input :
          ~WellFormed(input[i])
          => /\ Len(output) = Len(AcceptedUpTo(Len(input)))
             /\ output[Len(AcceptedUpTo(i))]
                    = FloatUniform(input[i].uniformName, Rat(0, 1), Rat(1, 1),
                                   Rat(0, 1), static_cast_float(Rat(1, 100)))

\* "@slider(min=1, max)" and then a well-formed int slider have been
\* scanned: two descriptors, the first with the defaults
C24_Witness ==
    /\ call = "scan"
    /\ input = <<SliderParseError, SliderInt>>
    /\ AnnotationParser_parseString(input[1].params) = EmptyMap
    /\ parseParams(tokenize(input[1].params)).thrown
    /\ Len(output) = 2
    /\ output[1].minValue = Rat(0, 1)
    /\ output[1].step = static_cast_float(Rat(1, 100))
    /\ output[2].name = <<"u", "C", "o", "u", "n", "t">>

\* C25: scan returns exactly one descriptor for each annotation whose
\* directive is known and whose declared type its builder accepts, in
\* source order; the other annotations contribute nothing and do not stop
\* the scan.
C25_OneDescriptorPerAccepted ==
    call = "scan"
    => /\ Len(output) = Len(AcceptedUpTo(Len(input)))
       /\ \A i \in DOMAIN output :
             /\ output[i].name = AcceptedUpTo(Len(input))[i].uniformName
             /\ output[i].tag = ExpectedTag(AcceptedUpTo(Len(input))[i])

\* an unknown directive and then an int slider have been scanned: the scan
\* went on and produced the slider's descriptor
C25_Witness ==
    /\ call = "scan"
    /\ input = <<UnknownDirective, SliderInt>>
    /\ Len(output) = 1
    /\ output[1].name = <<"u", "C", "o", "u", "n", "t">>
    /\ output[1].tag = "IntUniform"

\* this step ran the body of loadShader on behalf of forceReload or of a poll
ReloadStep == last'.load /\ last'.op \in {"forceReload", "checkAndReload"}

\* C27: loadShader records its argument as the tracked path before any
\* check, whether the call then succeeds or fails; no other step changes
\* the tracked path, and every reload that forceReload or a poll runs loads
\* the tracked path (it fails exactly when the files make a load of that
\* path fail, reports that path when it is missing, and on success binds
\* the source flattened from it), whatever path the active program came
\* from.
C27_ReloadsTargetRequestedPath ==
    [][/\ \A p \in Paths : loadShader(p) => shaderPath_' = p
       /\ last'.op # "loadShader" => shaderPath_' = shaderPath_
       /\ ReloadStep =>
            /\ last'.ret = ~LoadFails(shaderPath_)
            /\ ~Exists(files, shaderPath_) =>
                  lastError_' = <<"File not found: ", shaderPath_>>
            /\ last'.ret => shaderSource_' = process(files, shaderPath_).source]_vars

\* a forced reload has just failed on the missing path that a failed
\* loadShader recorded, while the program of the earlier path is active
C27_Witness ==
    /\ last = Call("forceReload", FALSE, TRUE)
    /\ shaderPath_ = Missing
    /\ lastError_ = <<"File not found: ", Missing>>
    /\ shaderProgram_ # 0
    /\ shaderSource_ = process(files, "a.frag").source

\* this step was a load attempt: a loadShader call, a forceReload call, or
\* a poll that ran a reload
AttemptStep == last'.load \/ last'.op = "forceReload"

\* C28: getLastError is empty before the first load attempt; a load attempt
\* (loadShader, a forceReload, a reload triggered by a poll) leaves it empty
\* exactly when it succeeds; every other step, a poll that triggers no
\* reload included, leaves it unchanged. So the error is empty if and only
\* if the most recent attempt succeeded or none has been made.
C28_ErrorEmptyIffLastAttemptSucceeded ==
    /\ lastError_ = <<>>
    /\ [][/\ AttemptStep => ((lastError_' = <<>>) <=> last'.ret)
          /\ ~AttemptStep => lastError_' = lastError_
          /\ (PollStep /\ ~last'.load) => lastError_' = lastError_]_vars

\* a poll with auto-reload enabled has just triggered no reload and left
\* the compiler's message of the failed forced reload before it in place
C28_Witness ==
    /\ last = Call("checkAndReload", FALSE, FALSE)
    /\ autoReload_
    /\ lastError_ = CompileErrorLog
    /\ shaderProgram_ # 0

\* the last descriptor of a name in a collection that has one
LastOfName(collection, name) ==
    collection[CHOOSE j \in WithName(collection, name) :
                  \A k \in WithName(collection, name) : k <= j]

\* C29: when the previous collection holds several descriptors of one name,
\* the restore goes by name only: every new descriptor of that name whose
\* variant is that of the LAST such previous descriptor receives the value
\* of that last one, and every other new descriptor of the name keeps its
\* default; the values of the earlier previous descriptors of the name are
\* not looked at, so same-named descriptors of one variant all come out
\* with one value.
C29_DuplicateNamesShareLastValue ==
    call = "restore" =>
      \A i \in DOMAIN output :
         LET d == output[i] IN
         Cardinality(WithName(input.previous, d.name)) >= 2 =>
            /\ d.value =
                 IF LastOfName(input.previous, d.name).tag = d.tag
                 THEN LastOfName(input.previous, d.name).value
                 ELSE d.defaultValue
            /\ \A j \in DOMAIN output :
                  (output[j].name = d.name /\ output[j].tag = d.tag)
                     => output[j].value = d.value

\* two FloatUniform descriptors named uSpeed held 0 and 1, and both new
\* FloatUniform descriptors of that name have come out with 1, the value of
\* the last
C29_Witness ==
    /\ call = "restore"
    /\ Len(input.previous) = 2 /\ Len(output) = 2
    /\ \A i \in 1..2 :
          /\ input.previous[i].name = uSpeed /\ input.previous[i].tag = "FloatUniform"
          /\ output[i].name = uSpeed /\ output[i].tag = "FloatUniform"
          /\ output[i].value = Rat(1, 1)
    /\ input.previous[1].value = Rat(0, 1)
    /\ input.previous[2].value = Rat(1, 1)

\* a poll while auto-reload is disabled runs no load and leaves every
\* member of the coordinator, and the disk, as they were
DisabledPollIsNoOp ==
    (PollStep /\ ~autoReload_) =>
        /\ ~last'.load
        /\ last'.ret = FALSE
        /\ Coordinator' = Coordinator
        /\ files' = files

\* C30: while auto-reload is disabled a poll never calls loadShader and
\* changes no coordinator state, whatever has happened to the files; once
\* auto-reload is enabled again, the next poll reloads if the timestamp of
\* the main file or of a file of the snapshot differs from the stored one.
C30_DisabledPollsThenReload ==
    [][/\ DisabledPollIsNoOp
       /\ (PollStep /\ autoReload_ /\ (MainStale \/ SnapshotStale)) => last'.load]_vars
====
